---- MODULE Spec2Model ----
(***************************************************************************)
(* Model of the nanoclaw backup subsystem (backup-safe.ts): the artifact   *)
(* codec (gzip + AES-256-GCM + SHA-256), uploadBackup, restoreFromBackup,  *)
(* verifyLatestBackup and cleanupOldBackups with its tiered retention      *)
(* rule, over an abstract remote blob store and a local filesystem.        *)
(***************************************************************************)
EXTENDS Integers, Sequences, FiniteSets, TLC

(***************************************************************************)
(* Bounds of the model.                                                    *)
(***************************************************************************)
\* bytes are numbers 0 .. ByteMod-1 (a byte of the program has 256 values)
ByteMod == 3
\* the clock (Date.now()) of the restore model runs 0 .. MaxClock
MaxClock == 1
\* restore runs per behaviour
MaxRestores == 2

\* the store model: the clock counts TicksPerDay ticks to a day
TicksPerDay == 2
\* the retention model classifies artifacts of the first RetentionSpanDays days
RetentionSpanDays == 440
\* uploadBackup runs, cleanupOldBackups runs and clock advances per behaviour,
\* taken together
MaxOps == 5

\* the codec model encodes every byte buffer of at most MaxLen bytes
MaxLen == 3
\* the configuration model calls MaxCalls public operations, one after another
MaxCalls == 2

Byte == 0 .. (ByteMod - 1)

(***************************************************************************)
(* Configuration read from .env                                            *)
(***************************************************************************)
\* the cipher's key length: aes-256-gcm takes a key of 32 bytes
AES_KEY_LEN == 32
\* 'nanoclaw-backup-key-32-chars!' has 29 characters
DEFAULT_KEY_LEN == 29

\* s.padEnd(n, c)
PadEnd(s, n, c) == IF Len(s) >= n THEN s ELSE s \o [i \in 1 .. (n - Len(s)) |-> c]

\* s.slice(0, n)
Slice0(s, n) == IF Len(s) <= n THEN s ELSE SubSeq(s, 1, n)

\* the default key: DEFAULT_KEY_LEN characters
DefaultKey == [i \in 1 .. DEFAULT_KEY_LEN |-> 1]

\* getBackupKey(): env.BACKUP_KEY?.padEnd(32,'0').slice(0,32) || default.
\* env is [set, value]: an unset BACKUP_KEY is undefined and gives the default;
\* a set one is padded and cut to AES_KEY_LEN characters
\* Characters are numbers: those of Byte are ASCII, one byte each in UTF-8;
\* any other stands for a character outside ASCII, two bytes in UTF-8.
RECURSIVE Utf8(_)
Utf8(s) ==
    IF s = <<>> THEN <<>>
    ELSE (IF Head(s) \in Byte THEN <<Head(s)>> ELSE <<Head(s) % ByteMod, 0>>) \o Utf8(Tail(s))

\* getBackupKey(): Buffer.from(env.BACKUP_KEY?.padEnd(32,'0').slice(0,32) || default).
\* env is [set, value]: an unset BACKUP_KEY is undefined and gives the default;
\* a set one is padded and cut to AES_KEY_LEN characters; Buffer.from encodes
\* the characters in UTF-8
getBackupKey(env) ==
    Utf8(IF ~env.set THEN DefaultKey ELSE Slice0(PadEnd(env.value, AES_KEY_LEN, 0), AES_KEY_LEN))

(***************************************************************************)
(* Codec: sha256, gzip, AES-256-GCM                                        *)
(***************************************************************************)
\* createHash('sha256').update(b).digest('hex'): an ideal (collision-free) hash
sha256(buf) == <<"sha256", buf>>

RECURSIVE SumSeq(_)
SumSeq(s) == IF s = <<>> THEN 0 ELSE s[1] + SumSeq(Tail(s))

\* the gzip member: magic, the (stored) data, the CRC trailer
GZIP_ID == 2
Crc(buf) == (SumSeq(buf) + Len(buf)) % ByteMod
Gzip(buf) == <<GZIP_ID>> \o buf \o <<Crc(buf)>>

\* createGunzip(): [ok, data]; a malformed stream emits 'error'
Gunzip(c) ==
    IF Len(c) >= 2 /\ c[1] = GZIP_ID /\ c[Len(c)] = Crc(SubSeq(c, 2, Len(c) - 1))
    THEN [ok |-> TRUE, data |-> SubSeq(c, 2, Len(c) - 1)]
    ELSE [ok |-> FALSE, data |-> <<>>]

\* createCipheriv / createDecipheriv expand the key once
KeySchedule(key) == SumSeq(key) % ByteMod
\* GCM is a counter mode: byte i is shifted by a key stream of the expanded key,
\* iv and i
KeyStream(ks, iv, i) == (ks + iv + i) % ByteMod
\* the authentication tag: an ideal MAC of key, iv and cipher text
AuthTag(key, iv, data) == <<"tag", key, iv, data>>

\* mutant: decryption shifts the bytes the way encryption does
PlainText_SameShift(key, iv, data) ==
    LET ks == KeySchedule(key)
    IN  [i \in 1 .. Len(data) |-> (data[i] + KeyStream(ks, iv, i)) % ByteMod]

CipherText(key, iv, buf) ==
    LET ks == KeySchedule(key)
    IN  [i \in 1 .. Len(buf) |-> (buf[i] + KeyStream(ks, iv, i)) % ByteMod]
PlainText(key, iv, data) ==
    LET ks == KeySchedule(key)
    IN  [i \in 1 .. Len(data) |-> (data[i] + ByteMod - KeyStream(ks, iv, i)) % ByteMod]

\* The body of a stored object: an artifact ("enc": iv, authTag, data), a
\* metadata document ("json": checksum) or anything else ("junk")
NoSum == sha256(<<>>)
NoTag == AuthTag(<<>>, 0, <<>>)
NoBody == [kind |-> "junk", iv |-> 0, authTag |-> NoTag, data |-> <<>>, checksum |-> NoSum]
JsonBody(sum) == [kind |-> "json", iv |-> 0, authTag |-> NoTag, data |-> <<>>, checksum |-> sum]

\* encrypt(buffer): iv || authTag || encrypted; createCipheriv throws on a key
\* that is not AES_KEY_LEN long
encrypt(key, iv, buf) ==
    IF Len(key) # AES_KEY_LEN THEN [ok |-> FALSE, body |-> NoBody]
    ELSE [ok |-> TRUE,
          body |-> [kind |-> "enc", iv |-> iv,
                    authTag |-> AuthTag(key, iv, CipherText(key, iv, buf)),
                    data |-> CipherText(key, iv, buf), checksum |-> NoSum]]

\* mutant: the authentication tag is not verified (no setAuthTag / final)
decrypt_NoAuth(key, body) ==
    IF Len(key) # AES_KEY_LEN THEN [ok |-> FALSE, data |-> <<>>]
    ELSE IF body.kind # "enc" THEN [ok |-> FALSE, data |-> <<>>]
    ELSE [ok |-> TRUE, data |-> PlainText(key, body.iv, body.data)]

\* decrypt(encrypted): slices iv, authTag and data; createDecipheriv throws on a
\* bad key length and decipher.final() throws when the tag does not verify.  A
\* body that is no artifact (a JSON document, an HTTP error page) slices to
\* bytes whose tag does not verify.
decrypt(key, body) ==
    IF Len(key) # AES_KEY_LEN THEN [ok |-> FALSE, data |-> <<>>]
    ELSE IF body.kind # "enc" THEN [ok |-> FALSE, data |-> <<>>]
    ELSE IF body.authTag # AuthTag(key, body.iv, body.data) THEN [ok |-> FALSE, data |-> <<>>]
    ELSE [ok |-> TRUE, data |-> PlainText(key, body.iv, body.data)]

\* 'SQLite format 3', the magic at the start of a database file
SQLITE_MAGIC == <<1, 0>>

\* mutant: the header check looks at the length of the buffer only
HeaderOk_LengthOnly(buf) == Len(buf) >= Len(SQLITE_MAGIC)

\* dbBuffer.slice(0, 16).toString('utf8').startsWith('SQLite format 3')
HeaderOk(buf) == Len(buf) >= Len(SQLITE_MAGIC) /\ SubSeq(buf, 1, Len(SQLITE_MAGIC)) = SQLITE_MAGIC

(***************************************************************************)
(* Time and the calendar.  A time is a number of ticks since local         *)
(* midnight of Epoch; getDay() and getDate() are the weekday and the day   *)
(* of the month of its local calendar day.                                 *)
(***************************************************************************)
\* day 0 of the model: Wednesday 2025-01-01 (getDay() = 3)
Epoch == [year |-> 2025, month |-> 1, dow |-> 3]

IsLeap(y) == y % 4 = 0 /\ (y % 100 # 0 \/ y % 400 = 0)
DaysInMonth(y, m) ==
    IF m = 2 THEN (IF IsLeap(y) THEN 29 ELSE 28)
    ELSE IF m \in {4, 6, 9, 11} THEN 30 ELSE 31

\* the calendar day a time falls on
DayOf(t) == t \div TicksPerDay

\* Date.prototype.getDay(): 0 is Sunday
GetDay(t) == (Epoch.dow + DayOf(t)) % 7

RECURSIVE DateFrom(_, _, _)
DateFrom(y, m, d) ==
    IF d < DaysInMonth(y, m) THEN d + 1
    ELSE DateFrom(IF m = 12 THEN y + 1 ELSE y, IF m = 12 THEN 1 ELSE m + 1, d - DaysInMonth(y, m))

\* Date.prototype.getDate(): the day of the month, 1 .. 31
GetDate(t) == DateFrom(Epoch.year, Epoch.month, DayOf(t))

(***************************************************************************)
(* The retention rule of cleanupOldBackups                                 *)
(***************************************************************************)
SUNDAY == 0
FIRST_OF_MONTH == 1
DAILY_DAYS == 7
WEEKLY_DAYS == 28
MONTHLY_DAYS == 365

\* mutant: no tier keeps anything: every listed artifact is selected
ShouldKeep_Nothing(uploadedAt, now) == now < uploadedAt

\* mutant: the monthly tier is forgotten
ShouldKeep_NoMonthly(uploadedAt, now) ==
    \/ (now - uploadedAt) < DAILY_DAYS * TicksPerDay
    \/ (GetDay(uploadedAt) = SUNDAY /\ (now - uploadedAt) < WEEKLY_DAYS * TicksPerDay)

\* mutant: the weekly tier is forgotten
ShouldKeep_NoWeekly(uploadedAt, now) ==
    \/ (now - uploadedAt) < DAILY_DAYS * TicksPerDay
    \/ (GetDate(uploadedAt) = FIRST_OF_MONTH /\ (now - uploadedAt) < MONTHLY_DAYS * TicksPerDay)

\* mutant: the daily window is a day too short
ShouldKeep_ShortDaily(uploadedAt, now) ==
    \/ (now - uploadedAt) < (DAILY_DAYS - 1) * TicksPerDay
    \/ (GetDay(uploadedAt) = SUNDAY /\ (now - uploadedAt) < WEEKLY_DAYS * TicksPerDay)
    \/ (GetDate(uploadedAt) = FIRST_OF_MONTH /\ (now - uploadedAt) < MONTHLY_DAYS * TicksPerDay)

\* lines 292-302: ageDays = (now - uploadDate) / (ms of a day), a fraction;
\* ageDays < n is (now - uploadDate) < n days
ShouldKeep(uploadedAt, now) ==
    LET age == now - uploadedAt
        isWeekly == GetDay(uploadedAt) = SUNDAY
        isMonthly == GetDate(uploadedAt) = FIRST_OF_MONTH
    IN  \/ age < DAILY_DAYS * TicksPerDay
        \/ (isWeekly /\ age < WEEKLY_DAYS * TicksPerDay)
        \/ (isMonthly /\ age < MONTHLY_DAYS * TicksPerDay)

(***************************************************************************)
(* Storage keys, relative to 'nanoclaw-backup/daily/': <<stamp>> is the    *)
(* artifact '<date>_<stamp>.db', <<stamp, META_SUFFIX>> its metadata       *)
(* '<date>_<stamp>.db.meta.json'; a key is a prefix of the keys it starts. *)
(***************************************************************************)
META_SUFFIX == 0
\* some other suffix: an object that is neither an artifact nor its metadata
OTHER_SUFFIX == META_SUFFIX + 1

\* `${filename}.meta.json`
MetaKey(k) == k \o <<META_SUFFIX>>
\* pathname.endsWith('.meta.json')
EndsWithMeta(k) == Len(k) >= 2 /\ k[Len(k)] = META_SUFFIX
\* the store's list({prefix}): the objects whose pathname starts with prefix
IsPrefix(p, k) == Len(p) <= Len(k) /\ SubSeq(k, 1, Len(p)) = p

VARIABLES
    envToken,   \* BLOB_READ_WRITE_TOKEN is configured
    envKey,     \* BACKUP_KEY: [set, value]
    store,      \* the remote store: a set of objects [key, uploadedAt, body]
    clock,      \* Date.now()
    live,       \* the live database file messages.db: [exists, bytes]
    safety,     \* the files messages.db.bak.<stamp>: a set of [name, bytes]
    rpc,        \* restoreFromBackup: where the run is
    rfile,      \* its argument: [given, key]
    rblob,      \* backupBlob
    rmeta,      \* metaBlob / metadata: [present, body]
    renc,       \* the downloaded body
    rplain,     \* dbBuffer
    rerr,       \* the error the run threw
    rhist,      \* history of the run: [pre, safety0, made, writes, runs]
    upc,        \* uploadBackup: where the run is
    ukey,       \* filename
    ubody,      \* buffer
    umeta,      \* metadata
    uerr,       \* the error the last run threw
    cpc,        \* cleanupOldBackups: where the run is
    cnow,       \* now
    clist,      \* dbBlobs, in the order of the listing
    ctoDelete,  \* toDelete
    chist,      \* history of the run: [attempted, failed]
    everSelected, \* the artifacts earlier cleanup runs selected for deletion
    ops,        \* upload runs, cleanup runs and clock advances begun so far
    vpc,        \* verifyLatestBackup: where the run is
    vlatest,    \* latest
    venc,       \* the downloaded body
    vres,       \* what the run returned
    verr,       \* the failure the run met
    tmp,        \* the file messages.backup.tmp: [exists, bytes]
    inv,        \* the invocations of uploadBackup: where each is and what it holds
    sched,      \* the scheduler: [started, timers, escaped, cleanupCaught]
    envApiKeys, \* the number of valid key configurations in .env
    keyStates,  \* keyStates: a sequence of [isAvailable, errorCount, cooldownUntil, lastError]
    currentIndex, \* currentIndex, counted from 0
    onKeySwitchCallback, \* a callback is registered
    rep,        \* the calls of reportError: where each is, its argument and result
    det         \* a call of detectApiError: [error, result]

restoreVars == <<live, safety, rpc, rfile, rblob, rmeta, renc, rplain, rerr, rhist>>
envVars == <<envToken, envKey>>
uploadVars == <<upc, ukey, ubody, umeta, uerr>>
cleanupVars == <<cpc, cnow, clist, ctoDelete, chist, everSelected>>
verifyVars == <<vpc, vlatest, venc, vres, verr>>
schedVars == <<tmp, inv, sched>>
keyVars == <<envApiKeys, keyStates, currentIndex, onKeySwitchCallback, rep, det>>
backupVars == <<envVars, store, restoreVars, uploadVars, cleanupVars, ops, verifyVars, schedVars>>

\* list({prefix}).blobs as a set; the order of a listing is the store's choice
List(prefix) == {b \in store : IsPrefix(prefix, b.key)}

NoBlob == [key |-> <<>>, uploadedAt |-> 0, body |-> NoBody]
NoFile == [exists |-> FALSE, bytes |-> <<>>]
File(bytes) == [exists |-> TRUE, bytes |-> bytes]

\* the strict prefixes of a byte sequence: what a write that failed half way left
StrictPrefixes(bytes) == {SubSeq(bytes, 1, n) : n \in 0 .. (Len(bytes) - 1)}

\* fs.copyFileSync / fs.writeFileSync to a path in the set of safety files:
\* the file of that name is created or replaced
PutFile(files, name, bytes) == {f \in files : f.name # name} \cup {[name |-> name, bytes |-> bytes]}

RestoreFailed(err) ==
    /\ rpc' = "Failed"
    /\ rerr' = err

\* restoreFromBackup(filename?), to the token check (part_002:185-191)
RestoreStart(given, key) ==
    /\ rpc = "Idle"
    /\ rhist.runs < MaxRestores
    /\ rfile' = [given |-> given, key |-> key]
    /\ rhist' = [pre |-> live, safety0 |-> safety, made |-> {}, writes |-> 0, runs |-> rhist.runs + 1]
    /\ IF ~envToken THEN RestoreFailed("config") ELSE rpc' = "Resolving" /\ rerr' = "none"
    /\ UNCHANGED <<live, safety, rblob, rmeta, renc, rplain>>

\* mutant: the listing is ordered by the stamp of the key, not by uploadedAt
Latest_ByKey(blobs) == {b \in blobs : \A c \in blobs : c.key[1] <= b.key[1]}

\* the artifacts of the listing with the latest uploadedAt: sort()[0] is one of them
Latest(blobs) == {b \in blobs : \A c \in blobs : c.uploadedAt <= b.uploadedAt}

\* lines 194-221: resolve the target (rfile.key is targetFile from here on), list
\* it, take blobs[0] and the metadata object
RestoreResolve ==
    /\ rpc = "Resolving"
    /\ \/ RestoreFailed("network") /\ UNCHANGED <<rfile, rblob, rmeta>>
       \/ LET dbBlobs == {b \in List(<<>>) : ~EndsWithMeta(b.key)}
              targets == IF rfile.given THEN {rfile.key} ELSE {b.key : b \in Latest(dbBlobs)}
          IN  IF ~rfile.given /\ dbBlobs = {}
              THEN RestoreFailed("notfound") /\ UNCHANGED <<rfile, rblob, rmeta>>
              ELSE \E targetFile \in targets :
                     LET blobs == List(targetFile)
                         metas == {b \in blobs : b.key = MetaKey(targetFile)}
                     IN  IF blobs = {}
                         THEN RestoreFailed("notfound") /\ UNCHANGED <<rfile, rblob, rmeta>>
                         ELSE /\ rfile' = [rfile EXCEPT !.key = targetFile]
                              /\ \E b \in blobs : rblob' = b
                              /\ rmeta' = IF metas = {} THEN [present |-> FALSE, body |-> NoBody]
                                          ELSE [present |-> TRUE, body |-> (CHOOSE b \in metas : TRUE).body]
                              /\ rpc' = "Downloading"
                              /\ rerr' = "none"
    /\ UNCHANGED <<live, safety, renc, rplain, rhist>>

\* what an HTTP error page is to the caller: fetch does not look at response.ok
HttpErrorBody == NoBody

\* lines 224-231: fetch the metadata (if listed) and the artifact.  A fetch
\* throws on a network error; metaResponse.json() throws on a response that is
\* no JSON document (an HTTP error page); the artifact's response is taken as
\* it comes
RestoreDownload ==
    /\ rpc = "Downloading"
    /\ \/ RestoreFailed("network") /\ UNCHANGED renc
       \/ /\ rmeta.present
          /\ RestoreFailed("json")
          /\ UNCHANGED renc
       \/ /\ \E body \in {rblob.body, HttpErrorBody} : renc' = body
          /\ rpc' = "Decoding"
          /\ rerr' = "none"
    /\ UNCHANGED <<live, safety, rfile, rblob, rmeta, rplain, rhist>>

\* mutant: the checksum of the metadata is not compared
Decode_NoChecksum(key, body, meta) ==
    LET d == decrypt(key, body)
        g == Gunzip(d.data)
    IN  IF ~d.ok THEN [err |-> "integrity", data |-> <<>>]
        ELSE IF ~g.ok THEN [err |-> "gunzip", data |-> <<>>]
        ELSE IF ~HeaderOk(g.data) THEN [err |-> "header", data |-> <<>>]
        ELSE [err |-> "none", data |-> g.data]

\* mutant: an artifact without metadata fails the checksum step
Decode_RequireMeta(key, body, meta) ==
    LET d == decrypt(key, body)
        g == Gunzip(d.data)
    IN  IF ~d.ok THEN [err |-> "integrity", data |-> <<>>]
        ELSE IF ~g.ok THEN [err |-> "gunzip", data |-> <<>>]
        ELSE IF ~meta.present \/ sha256(g.data) # meta.body.checksum THEN [err |-> "checksum", data |-> <<>>]
        ELSE IF ~HeaderOk(g.data) THEN [err |-> "header", data |-> <<>>]
        ELSE [err |-> "none", data |-> g.data]

\* lines 233-259: decrypt, gunzip, compare the checksum, check the header
Decode(key, body, meta) ==
    LET d == decrypt(key, body)
        g == Gunzip(d.data)
    IN  IF ~d.ok THEN [err |-> "integrity", data |-> <<>>]
        ELSE IF ~g.ok THEN [err |-> "gunzip", data |-> <<>>]
        ELSE IF meta.present /\ sha256(g.data) # meta.body.checksum THEN [err |-> "checksum", data |-> <<>>]
        ELSE IF ~HeaderOk(g.data) THEN [err |-> "header", data |-> <<>>]
        ELSE [err |-> "none", data |-> g.data]

\* mutant: the safety copy is taken before the artifact is decoded
RestoreDecode_CopyFirst ==
    /\ rpc = "Decoding"
    /\ LET r == Decode(getBackupKey(envKey), renc, rmeta)
       IN  IF r.err # "none"
           THEN RestoreFailed(r.err) /\ UNCHANGED rplain
           ELSE rpc' = "SafetyCopying" /\ rerr' = "none" /\ rplain' = r.data
    /\ IF live.exists
       THEN /\ safety' = PutFile(safety, clock, live.bytes)
            /\ rhist' = [rhist EXCEPT !.made = @ \cup {clock}]
       ELSE UNCHANGED <<safety, rhist>>
    /\ UNCHANGED <<live, rfile, rblob, rmeta, renc>>

RestoreDecode ==
    /\ rpc = "Decoding"
    /\ LET r == Decode(getBackupKey(envKey), renc, rmeta)
       IN  IF r.err # "none"
           THEN RestoreFailed(r.err) /\ UNCHANGED rplain
           ELSE rpc' = "SafetyCopying" /\ rerr' = "none" /\ rplain' = r.data
    /\ UNCHANGED <<live, safety, rfile, rblob, rmeta, renc, rhist>>

\* mutant: a copy that throws is caught and the run goes on to write
RestoreSafetyCopy_IgnoreFailure ==
    /\ rpc = "SafetyCopying"
    /\ rpc' = "Writing"
    /\ IF ~live.exists
       THEN UNCHANGED <<safety, rhist>>
       ELSE \/ /\ safety' = PutFile(safety, clock, live.bytes)
               /\ rhist' = [rhist EXCEPT !.made = @ \cup {clock}]
            \/ UNCHANGED <<safety, rhist>>
    /\ UNCHANGED <<live, rfile, rblob, rmeta, renc, rplain, rerr>>

\* mutant: the copy is taken of the file as restored, not as it was
RestoreSafetyCopy_OfNewBytes ==
    /\ rpc = "SafetyCopying"
    /\ rpc' = "Writing"
    /\ IF ~live.exists
       THEN UNCHANGED <<safety, rhist>>
       ELSE /\ safety' = PutFile(safety, clock, rplain)
            /\ rhist' = [rhist EXCEPT !.made = @ \cup {clock}]
    /\ UNCHANGED <<live, rfile, rblob, rmeta, renc, rplain, rerr>>

\* lines 261-266: if (fs.existsSync(dbPath)) fs.copyFileSync(dbPath, dbPath.bak.<now>).
\* A copy that throws leaves no file or a partial one, and the run ends there.
RestoreSafetyCopy ==
    /\ rpc = "SafetyCopying"
    /\ IF ~live.exists
       THEN rpc' = "Writing" /\ UNCHANGED <<safety, rerr, rhist>>
       ELSE \/ /\ safety' = PutFile(safety, clock, live.bytes)
               /\ rhist' = [rhist EXCEPT !.made = @ \cup {clock}]
               /\ rpc' = "Writing"
               /\ UNCHANGED rerr
            \/ /\ RestoreFailed("copy")
               /\ \/ UNCHANGED <<safety, rhist>>
                  \/ \E part \in StrictPrefixes(live.bytes) :
                       /\ safety' = PutFile(safety, clock, part)
                       /\ rhist' = [rhist EXCEPT !.made = @ \cup {clock}]
    /\ UNCHANGED <<live, rfile, rblob, rmeta, renc, rplain>>

\* line 269: fs.writeFileSync(dbPath, dbBuffer) opens the file truncating it and
\* writes the buffer; when it throws, the file is as it was (the open failed) or
\* holds a part of the buffer
RestoreWrite ==
    /\ rpc = "Writing"
    /\ rhist' = [rhist EXCEPT !.writes = @ + 1]
    /\ \/ /\ live' = File(rplain)
          /\ rpc' = "Done"
          /\ UNCHANGED rerr
       \/ /\ RestoreFailed("write")
          /\ \/ UNCHANGED live
             \/ \E part \in StrictPrefixes(rplain) : live' = File(part)
    /\ UNCHANGED <<safety, rfile, rblob, rmeta, renc, rplain>>

\* the promise settles: the run is over
RestoreReturn ==
    /\ rpc \in {"Done", "Failed"}
    /\ rpc' = "Idle"
    /\ rfile' = [given |-> FALSE, key |-> <<>>]
    /\ rblob' = NoBlob
    /\ rmeta' = [present |-> FALSE, body |-> NoBody]
    /\ renc' = NoBody
    /\ rplain' = <<>>
    /\ rerr' = "none"
    /\ rhist' = [pre |-> NoFile, safety0 |-> {}, made |-> {}, writes |-> 0, runs |-> rhist.runs]
    /\ UNCHANGED <<live, safety>>

(***************************************************************************)
(* uploadBackup and cleanupOldBackups over the remote store                *)
(***************************************************************************)
NoRun == [attempted |-> <<>>, failed |-> {}]

InitUpload ==
    /\ upc = "idle"
    /\ ukey = <<>>
    /\ ubody = NoBody
    /\ umeta = NoBody
    /\ uerr = "none"

InitCleanup ==
    /\ cpc = "idle"
    /\ cnow = 0
    /\ clist = <<>>
    /\ ctoDelete = <<>>
    /\ chist = NoRun
    /\ everSelected = {}

\* put(pathname, body): the object of that pathname is created or replaced, with
\* the store's time of the upload
PutBlob(blobs, key, at, body) == {b \in blobs : b.key # key} \cup {[key |-> key, uploadedAt |-> at, body |-> body]}

\* del(pathname): the object of that pathname, if any, is gone
DelBlob(blobs, key) == {b \in blobs : b.key # key}

Keys(blobs) == {b.key : b \in blobs}

\* the nonces randomBytes(16) gives the uploads of the store model, where the
\* bytes of an artifact play no part
UploadIVs == {0}

\* the run is over: it returned (err is "none") or threw err
UploadOver(err) ==
    /\ upc' = "idle"
    /\ ukey' = <<>>
    /\ ubody' = NoBody
    /\ umeta' = NoBody
    /\ uerr' = err

\* lines 152-163: createSafeBackup (it throws when the export fails or the key
\* is not of the cipher's length), the filename from Date.now(), the token check
UploadStart ==
    /\ upc = "idle"
    /\ ops < MaxOps
    /\ live.exists
    /\ ops' = ops + 1
    /\ \/ UploadOver("capture")
       \/ \E iv \in UploadIVs :
            LET e == encrypt(getBackupKey(envKey), iv, Gzip(live.bytes))
            IN  /\ e.ok
                /\ IF ~envToken
                   THEN UploadOver("config")
                   ELSE /\ upc' = "putArtifact"
                        /\ ukey' = <<clock>>
                        /\ ubody' = e.body
                        /\ umeta' = JsonBody(sha256(live.bytes))
                        /\ uerr' = "none"
    /\ UNCHANGED store

\* lines 165-170: await put(filename, buffer); a put that throws ends the run
UploadPutArtifact ==
    /\ upc = "putArtifact"
    /\ \/ /\ store' = PutBlob(store, ukey, clock, ubody)
          /\ upc' = "putMeta"
          /\ UNCHANGED <<ukey, ubody, umeta, uerr>>
       \/ /\ UploadOver("network")
          /\ UNCHANGED store
    /\ UNCHANGED ops

\* lines 172-179: await put(`${filename}.meta.json`, metadata)
UploadPutMeta ==
    /\ upc = "putMeta"
    /\ \/ store' = PutBlob(store, MetaKey(ukey), clock, umeta) /\ UploadOver("none")
       \/ UNCHANGED store /\ UploadOver("network")
    /\ UNCHANGED ops

UploadStep ==
    /\ UploadStart \/ UploadPutArtifact \/ UploadPutMeta
    /\ UNCHANGED <<envVars, clock, restoreVars, cleanupVars, verifyVars, schedVars, keyVars>>

\* the orders in which a listing may report a set of objects
Orderings(S) == {f \in [1 .. Cardinality(S) -> S] : \A i, j \in 1 .. Cardinality(S) : f[i] = f[j] => i = j}

\* mutant: the metadata key of a selected artifact is not queued
RECURSIVE SelectToDelete_NoMeta(_, _)
SelectToDelete_NoMeta(blobs, now) ==
    IF blobs = <<>> THEN <<>>
    ELSE (IF ~ShouldKeep(Head(blobs).uploadedAt, now) THEN <<Head(blobs).key>> ELSE <<>>)
         \o SelectToDelete_NoMeta(Tail(blobs), now)

\* lines 289-309: the loop over dbBlobs that fills toDelete
RECURSIVE SelectToDelete(_, _)
SelectToDelete(blobs, now) ==
    IF blobs = <<>> THEN <<>>
    ELSE (IF ~ShouldKeep(Head(blobs).uploadedAt, now)
          THEN <<Head(blobs).key, MetaKey(Head(blobs).key)>>
          ELSE <<>>)
         \o SelectToDelete(Tail(blobs), now)

\* mutant: the run does not look at the token
CleanupStart_NoTokenCheck ==
    /\ cpc = "idle"
    /\ ops < MaxOps
    /\ ops' = ops + 1
    /\ cpc' = "listing"
    /\ UNCHANGED <<store, cnow, clist, ctoDelete, chist, everSelected>>

\* lines 278-283: without a token the run warns and returns
CleanupStart ==
    /\ cpc = "idle"
    /\ ops < MaxOps
    /\ ops' = ops + 1
    /\ cpc' = IF envToken THEN "listing" ELSE "done"
    /\ UNCHANGED <<store, cnow, clist, ctoDelete, chist, everSelected>>

\* mutant: the metadata objects are classified like the artifacts
CleanupList_NoFilter ==
    /\ cpc = "listing"
    /\ \/ cpc' = "failed" /\ UNCHANGED <<cnow, clist, ctoDelete>>
       \/ \E dbBlobs \in Orderings(List(<<>>)) :
            /\ clist' = dbBlobs
            /\ cnow' = clock
            /\ ctoDelete' = SelectToDelete(dbBlobs, clock)
            /\ cpc' = "deleting"
    /\ UNCHANGED <<store, chist, everSelected, ops>>

\* lines 285-309: list, drop the metadata objects, classify each artifact
CleanupList ==
    /\ cpc = "listing"
    /\ \/ cpc' = "failed" /\ UNCHANGED <<cnow, clist, ctoDelete>>
       \/ \E dbBlobs \in Orderings({b \in List(<<>>) : ~EndsWithMeta(b.key)}) :
            /\ clist' = dbBlobs
            /\ cnow' = clock
            /\ ctoDelete' = SelectToDelete(dbBlobs, clock)
            /\ cpc' = "deleting"
    /\ UNCHANGED <<store, chist, everSelected, ops>>

\* mutant: a delete that throws ends the run (no try/catch around del)
CleanupDelete_AbortOnFailure ==
    /\ cpc = "deleting"
    /\ Len(chist.attempted) < Len(ctoDelete)
    /\ LET pathname == ctoDelete[Len(chist.attempted) + 1]
       IN  \/ /\ store' = DelBlob(store, pathname)
              /\ chist' = [chist EXCEPT !.attempted = Append(@, pathname)]
              /\ UNCHANGED cpc
           \/ /\ chist' = [chist EXCEPT !.attempted = Append(@, pathname), !.failed = @ \cup {pathname}]
              /\ cpc' = "failed"
              /\ UNCHANGED store
    /\ UNCHANGED <<cnow, clist, ctoDelete, everSelected, ops>>

\* lines 312-319: one turn of the delete loop; a del that throws is logged
CleanupDelete ==
    /\ cpc = "deleting"
    /\ Len(chist.attempted) < Len(ctoDelete)
    /\ LET pathname == ctoDelete[Len(chist.attempted) + 1]
       IN  \/ /\ store' = DelBlob(store, pathname)
              /\ chist' = [chist EXCEPT !.attempted = Append(@, pathname)]
           \/ /\ chist' = [chist EXCEPT !.attempted = Append(@, pathname), !.failed = @ \cup {pathname}]
              /\ UNCHANGED store
    /\ UNCHANGED <<cpc, cnow, clist, ctoDelete, everSelected, ops>>

\* line 321: the loop is over, the run returns
CleanupFinish ==
    /\ cpc = "deleting"
    /\ Len(chist.attempted) = Len(ctoDelete)
    /\ cpc' = "done"
    /\ UNCHANGED <<store, cnow, clist, ctoDelete, chist, everSelected, ops>>

\* the artifacts a run selected: every other entry of toDelete
SelectedArtifacts == {ctoDelete[i] : i \in {j \in 1 .. Len(ctoDelete) : ~EndsWithMeta(ctoDelete[j])}}

\* the promise settles: the run is over
CleanupReturn ==
    /\ cpc \in {"done", "failed"}
    /\ cpc' = "idle"
    /\ cnow' = 0
    /\ clist' = <<>>
    /\ ctoDelete' = <<>>
    /\ chist' = NoRun
    /\ everSelected' = everSelected \cup SelectedArtifacts
    /\ UNCHANGED <<store, ops>>

CleanupStep ==
    /\ CleanupStart \/ CleanupList \/ CleanupDelete \/ CleanupFinish \/ CleanupReturn
    /\ UNCHANGED <<envVars, clock, restoreVars, uploadVars, verifyVars, schedVars, keyVars>>

(***************************************************************************)
(* verifyLatestBackup                                                      *)
(***************************************************************************)
InitVerify ==
    /\ vpc = "idle"
    /\ vlatest = NoBlob
    /\ venc = NoBody
    /\ vres = "none"
    /\ verr = "none"

\* return false: the run is over, err is what it met
VerifyFalse(err) ==
    /\ vpc' = "returned"
    /\ vres' = "false"
    /\ verr' = err

\* lines 327-331: without a token the run returns false
VerifyStart ==
    /\ vpc = "idle"
    /\ IF ~envToken THEN VerifyFalse("config") ELSE vpc' = "listing" /\ UNCHANGED <<vres, verr>>
    /\ UNCHANGED <<vlatest, venc>>

\* mutant: a listing that throws is not caught
VerifyList_Uncaught ==
    /\ vpc = "listing"
    /\ \/ vpc' = "returned" /\ vres' = "threw" /\ verr' = "network" /\ UNCHANGED vlatest
       \/ LET dbBlobs == {b \in List(<<>>) : ~EndsWithMeta(b.key)}
          IN  IF dbBlobs = {}
              THEN VerifyFalse("notfound") /\ UNCHANGED vlatest
              ELSE /\ \E b \in Latest(dbBlobs) : vlatest' = b
                   /\ vpc' = "downloading"
                   /\ UNCHANGED <<vres, verr>>
    /\ UNCHANGED venc

\* lines 333-345: list, drop the metadata objects, take the latest; an error of
\* the listing is caught
VerifyList ==
    /\ vpc = "listing"
    /\ \/ VerifyFalse("network") /\ UNCHANGED vlatest
       \/ LET dbBlobs == {b \in List(<<>>) : ~EndsWithMeta(b.key)}
          IN  IF dbBlobs = {}
              THEN VerifyFalse("notfound") /\ UNCHANGED vlatest
              ELSE /\ \E b \in Latest(dbBlobs) : vlatest' = b
                   /\ vpc' = "downloading"
                   /\ UNCHANGED <<vres, verr>>
    /\ UNCHANGED venc

\* lines 347-349: fetch the artifact; the response is taken as it comes
VerifyDownload ==
    /\ vpc = "downloading"
    /\ \/ VerifyFalse("network") /\ UNCHANGED venc
       \/ /\ \E body \in {vlatest.body, HttpErrorBody} : venc' = body
          /\ vpc' = "decrypting"
          /\ UNCHANGED <<vres, verr>>
    /\ UNCHANGED vlatest

\* lines 351-359: decrypt(encrypted); the result is dropped.  What decrypt
\* throws is caught
VerifyDecrypt ==
    /\ vpc = "decrypting"
    /\ IF decrypt(getBackupKey(envKey), venc).ok
       THEN vpc' = "returned" /\ vres' = "true" /\ UNCHANGED verr
       ELSE VerifyFalse("integrity")
    /\ UNCHANGED <<vlatest, venc>>

\* the promise settles: the run is over
VerifyReturn ==
    /\ vpc = "returned"
    /\ vpc' = "idle"
    /\ vlatest' = NoBlob
    /\ venc' = NoBody
    /\ vres' = "none"
    /\ verr' = "none"

(***************************************************************************)
(* The scheduler: startBackupScheduler, its timers, runFullBackup, and the *)
(* invocations of uploadBackup they start.  An invocation runs up to its   *)
(* next await in one step; the steps of several invocations interleave.    *)
(***************************************************************************)
\* the invocations of uploadBackup a behaviour may start
MaxRuns == 2
Runs == 1 .. MaxRuns

NoInvocation ==
    [pc |-> "none", trigger |-> "none", caught |-> FALSE, snap |-> <<>>,
     buf |-> NoBody, meta |-> NoBody, key |-> <<>>, err |-> "none", after |-> 0]

NoSchedule == [started |-> FALSE, timers |-> {}, escaped |-> FALSE, cleanupCaught |-> FALSE]

InitSchedule ==
    /\ tmp = NoFile
    /\ inv = [i \in Runs |-> NoInvocation]
    /\ sched = NoSchedule

\* the invocations that threw so far
Failed == {i \in Runs : inv[i].pc = "failed"}
\* the invocations that were called and have not settled
InFlight == {i \in Runs : inv[i].pc \in {"gzip", "putArtifact", "putMeta"}}

\* the next invocation is the first that was not called yet
IsNextRun(i) == inv[i].pc = "none" /\ \A j \in Runs : j < i => inv[j].pc # "none"

\* a rejected promise with no handler ends the host process, and its timers
Unhandled(s) == [s EXCEPT !.escaped = TRUE, !.timers = {}]

\* what becomes of the scheduler when invocation i has taken a step
Settled(i, s) == IF inv'[i].pc = "failed" /\ ~inv'[i].caught THEN Unhandled(s) ELSE s

\* the invocation threw err: its promise is rejected, what it held is dropped
Thrown(run, err) == [run EXCEPT !.pc = "failed", !.err = err, !.snap = <<>>, !.buf = NoBody, !.meta = NoBody]

\* mutant: the catch block rethrows without removing the file
CaptureCatch_NoUnlink(file) == file

\* lines 139-145: the catch block of createSafeBackup removes the temporary
\* file if it exists, then rethrows
CaptureCatch(file) == IF file.exists THEN NoFile ELSE file

\* uploadBackup() is called: createSafeBackup lines 82-111 run up to the await
\* of the compression.  VACUUM INTO fails when the target file exists, or for a
\* reason of its own (it may leave a part of the file); readFileSync may fail.
CallUploadBackup(i, trigger, caught, s) ==
    LET begun == [NoInvocation EXCEPT !.pc = "gzip", !.trigger = trigger, !.caught = caught,
                                      !.after = Cardinality(Failed)]
        thrown == Thrown(begun, "capture")
    IN  /\ \/ /\ tmp.exists
              /\ tmp' = CaptureCatch(tmp)
              /\ inv' = [inv EXCEPT ![i] = thrown]
           \/ /\ ~tmp.exists
              /\ \E left \in {NoFile} \cup {File(part) : part \in StrictPrefixes(live.bytes)} :
                    tmp' = CaptureCatch(left)
              /\ inv' = [inv EXCEPT ![i] = thrown]
           \/ /\ ~tmp.exists
              /\ tmp' = CaptureCatch(File(live.bytes))
              /\ inv' = [inv EXCEPT ![i] = thrown]
           \/ /\ ~tmp.exists
              /\ tmp' = File(live.bytes)
              /\ inv' = [inv EXCEPT ![i] = [begun EXCEPT !.snap = live.bytes]]
        /\ sched' = Settled(i, s)

\* part_000 lines 76-126: the first call starts the scheduler: it arms the two
\* timers and calls uploadBackup() at once, with a catch on its promise
StartBackupScheduler ==
    /\ ~sched.started
    /\ ~sched.escaped
    /\ \E i \in Runs :
         /\ IsNextRun(i)
         /\ CallUploadBackup(i, "initial", TRUE,
                             [sched EXCEPT !.started = TRUE, !.timers = {"upload", "cleanup"}])
    /\ UNCHANGED <<envVars, store, clock, restoreVars, uploadVars, cleanupVars, ops, verifyVars, keyVars>>

\* mutant: the interval's call of uploadBackup() has no catch
IntervalUpload_NoCatch ==
    /\ "upload" \in sched.timers
    /\ \E i \in Runs : IsNextRun(i) /\ CallUploadBackup(i, "interval", FALSE, sched)
    /\ UNCHANGED <<envVars, store, clock, restoreVars, uploadVars, cleanupVars, ops, verifyVars, keyVars>>

\* part_000 lines 108-115: the upload timer fires, whatever the earlier
\* invocations are doing
IntervalUpload ==
    /\ "upload" \in sched.timers
    /\ \E i \in Runs : IsNextRun(i) /\ CallUploadBackup(i, "interval", TRUE, sched)
    /\ UNCHANGED <<envVars, store, clock, restoreVars, uploadVars, cleanupVars, ops, verifyVars, keyVars>>

\* part_000 lines 44-58: runFullBackup() is called by the host, at any time;
\* its uploadBackup and cleanupOldBackups sit in one try/catch
RunFullBackup ==
    /\ ~sched.escaped
    /\ \E i \in Runs : IsNextRun(i) /\ CallUploadBackup(i, "full", TRUE, sched)
    /\ UNCHANGED <<envVars, store, clock, restoreVars, uploadVars, cleanupVars, ops, verifyVars, keyVars>>

\* part_002 lines 112-163: the compression settles; encrypt, the metadata, the
\* removal of the temporary file (unlinkSync throws when it is gone), then the
\* filename from Date.now() and the token check
CaptureResume(i) ==
    /\ inv[i].pc = "gzip"
    /\ ~sched.escaped
    /\ LET thrown == Thrown(inv[i], "capture")
       IN  \/ /\ tmp' = CaptureCatch(tmp)
              /\ inv' = [inv EXCEPT ![i] = thrown]
           \/ \E iv \in UploadIVs :
                LET e == encrypt(getBackupKey(envKey), iv, Gzip(inv[i].snap))
                IN  IF ~e.ok \/ ~tmp.exists
                    THEN /\ tmp' = CaptureCatch(tmp)
                         /\ inv' = [inv EXCEPT ![i] = thrown]
                    ELSE /\ tmp' = NoFile
                         /\ inv' = [inv EXCEPT ![i] =
                                IF ~envToken
                                THEN Thrown(@, "config")
                                ELSE [@ EXCEPT !.pc = "putArtifact", !.snap = <<>>, !.buf = e.body,
                                               !.meta = JsonBody(sha256(inv[i].snap)),
                                               !.key = <<clock>>]]
    /\ sched' = Settled(i, sched)
    /\ UNCHANGED <<envVars, store, clock, restoreVars, uploadVars, cleanupVars, ops, verifyVars, keyVars>>

\* mutant: the put of the metadata follows a put of the artifact that threw
InvocationPutArtifact_IgnoreFailure(i) ==
    /\ inv[i].pc = "putArtifact"
    /\ ~sched.escaped
    /\ \/ /\ store' = PutBlob(store, inv[i].key, clock, inv[i].buf)
          /\ inv' = [inv EXCEPT ![i].pc = "putMeta"]
       \/ /\ inv' = [inv EXCEPT ![i].pc = "putMeta"]
          /\ UNCHANGED store
    /\ sched' = Settled(i, sched)
    /\ UNCHANGED <<envVars, clock, restoreVars, uploadVars, cleanupVars, ops, verifyVars, tmp, keyVars>>

\* part_002 lines 165-170: await put(filename, buffer)
InvocationPutArtifact(i) ==
    /\ inv[i].pc = "putArtifact"
    /\ ~sched.escaped
    /\ \/ /\ store' = PutBlob(store, inv[i].key, clock, inv[i].buf)
          /\ inv' = [inv EXCEPT ![i].pc = "putMeta"]
       \/ /\ inv' = [inv EXCEPT ![i] = Thrown(inv[i], "network")]
          /\ UNCHANGED store
    /\ sched' = Settled(i, sched)
    /\ UNCHANGED <<envVars, clock, restoreVars, uploadVars, cleanupVars, ops, verifyVars, tmp, keyVars>>

\* part_002 lines 172-179: await put(`${filename}.meta.json`, metadata); in
\* runFullBackup (part_000 line 53) cleanupOldBackups() is called next
InvocationPutMeta(i) ==
    /\ inv[i].pc = "putMeta"
    /\ ~sched.escaped
    /\ \/ /\ store' = PutBlob(store, MetaKey(inv[i].key), clock, inv[i].meta)
          /\ inv' = [inv EXCEPT ![i] = [@ EXCEPT !.pc = "done", !.buf = NoBody, !.meta = NoBody]]
          /\ IF inv[i].trigger = "full" /\ cpc = "idle"
             THEN /\ cpc' = IF envToken THEN "listing" ELSE "done"
                  /\ sched' = [sched EXCEPT !.cleanupCaught = TRUE]
             ELSE UNCHANGED <<cpc, sched>>
       \/ /\ inv' = [inv EXCEPT ![i] = Thrown(inv[i], "network")]
          /\ sched' = Settled(i, sched)
          /\ UNCHANGED <<store, cpc>>
    /\ UNCHANGED <<cnow, clist, ctoDelete, chist, everSelected>>
    /\ UNCHANGED <<envVars, clock, restoreVars, uploadVars, ops, verifyVars, tmp, keyVars>>

InvocationStep == \E i \in Runs : CaptureResume(i) \/ InvocationPutArtifact(i) \/ InvocationPutMeta(i)

\* part_000 lines 118-125: the cleanup timer fires; one cleanup run at a time
\* is followed
IntervalCleanup ==
    /\ "cleanup" \in sched.timers
    /\ cpc = "idle"
    /\ cpc' = IF envToken THEN "listing" ELSE "done"
    /\ sched' = [sched EXCEPT !.cleanupCaught = TRUE]
    /\ UNCHANGED <<cnow, clist, ctoDelete, chist, everSelected, tmp, inv>>
    /\ UNCHANGED <<envVars, store, clock, restoreVars, uploadVars, ops, verifyVars, keyVars>>

\* the cleanup run goes on; when it throws, the catch at its call logs it
ScheduledCleanupStep ==
    /\ ~sched.escaped
    /\ CleanupList \/ CleanupDelete \/ CleanupFinish \/ CleanupReturn
    /\ sched' = IF cpc = "failed" /\ ~sched.cleanupCaught THEN Unhandled(sched) ELSE sched
    /\ UNCHANGED <<tmp, inv>>
    /\ UNCHANGED <<envVars, clock, restoreVars, uploadVars, verifyVars, keyVars>>

(***************************************************************************)
(* detectApiError.  A message is a sequence of phrases; a pattern a.*b     *)
(* matches when phrase a stands before phrase b.                           *)
(***************************************************************************)
NullMessage == <<"null">>

\* the substrings the patterns look for, by the phrase that holds them
Holds(phrase, text) ==
    \/ phrase = text
    \/ phrase = "permission_error" /\ text = "permission"
    \/ phrase = "authentication" /\ text = "auth"
    \/ phrase = "API Error: 403" /\ text = "403"
    \/ phrase = "API Error: 429" /\ text = "429"

Has(error, text) == \E i \in DOMAIN error : Holds(error[i], text)
HasBoth(error, a, b) == \E i, j \in DOMAIN error : i < j /\ Holds(error[i], a) /\ Holds(error[j], b)

\* API_ERROR_PATTERNS.some(pattern => pattern.test(error))
MatchesApiErrorPattern(error) ==
    \/ HasBoth(error, "usage limit", "billing cycle")
    \/ HasBoth(error, "quota", "refreshed")
    \/ Has(error, "permission_error")
    \/ Has(error, "rate limit")
    \/ HasBoth(error, "authentication", "failed")
    \/ Has(error, "API Error: 403")
    \/ Has(error, "API Error: 429")
    \/ HasBoth(error, "insufficient", "quota")
    \/ Has(error, "Claude Code process exited with code 1")

\* lines 237-268: formatUserMessage(error, errorType): the heading of the type
\* and the message (the messages of the model are shorter than the 300
\* characters that are kept of it)
formatUserMessage(error, errorType) == <<errorType, error>>

\* mutant: the type auth is looked for first
ErrorTypeOf_AuthFirst(error) ==
    IF Has(error, "auth") \/ Has(error, "403") \/ Has(error, "permission") THEN "auth"
    ELSE IF Has(error, "quota") \/ Has(error, "usage limit") \/ Has(error, "billing cycle") THEN "quota"
    ELSE IF Has(error, "rate limit") \/ Has(error, "429") THEN "rate_limit"
    ELSE "unknown"

\* lines 220-227: the type of an API error
ErrorTypeOf(error) ==
    IF Has(error, "quota") \/ Has(error, "usage limit") \/ Has(error, "billing cycle") THEN "quota"
    ELSE IF Has(error, "rate limit") \/ Has(error, "429") THEN "rate_limit"
    ELSE IF Has(error, "auth") \/ Has(error, "403") \/ Has(error, "permission") THEN "auth"
    ELSE "unknown"

\* not an API error
NotApiError == [isApiError |-> FALSE, errorType |-> "unknown", userMessage |-> <<>>]

\* detectApiError(error): [isApiError, errorType, userMessage]
detectApiError(error) ==
    IF error = NullMessage \/ error = <<>> THEN NotApiError
    ELSE IF ~MatchesApiErrorPattern(error) THEN NotApiError
    ELSE [isApiError |-> TRUE,
          errorType |-> ErrorTypeOf(error),
          userMessage |-> formatUserMessage(error, ErrorTypeOf(error))]

\* the phrases a message is made of
Phrases ==
    {"usage limit", "billing cycle", "quota", "refreshed", "permission_error", "rate limit",
     "authentication", "failed", "API Error: 403", "API Error: 429", "insufficient",
     "Claude Code process exited with code 1", "429", "network connection"}

\* the phrases of the longest message
MaxPhrases == 2

RECURSIVE MessagesOf(_)
MessagesOf(n) ==
    IF n = 0 THEN {<<>>}
    ELSE LET shorter == MessagesOf(n - 1)
         IN  shorter \cup {Append(m, p) : m \in {x \in shorter : Len(x) = n - 1}, p \in Phrases}

\* the arguments of detectApiError: null (or undefined), the empty string and
\* the messages
Messages == {NullMessage} \cup MessagesOf(MaxPhrases)

\* no call of detectApiError has returned
NoResult == [isApiError |-> FALSE, errorType |-> "none", userMessage |-> <<>>]

\* detectApiError(error) is called and returns
DetectApiErrorStep ==
    /\ det.result = NoResult
    /\ det' = [det EXCEPT !.result = detectApiError(det.error)]
    /\ UNCHANGED <<envApiKeys, keyStates, currentIndex, onKeySwitchCallback, rep>>
    /\ UNCHANGED <<clock, backupVars>>

(***************************************************************************)
(* The API key manager                                                     *)
(***************************************************************************)
\* the key configurations .env may hold
MaxKeys == 2
\* how far the clock of the key manager runs
MaxKeyTime == 5

\* ERROR_COOLDOWN_MS, in ticks of the clock
ERROR_COOLDOWN_MS == 1
MAX_ERROR_COUNT == 3

\* cooldownUntil is undefined
NoDate == -1
\* no key: getCurrentKey returned null, no switch target was found
NoKey == -1

FreshKey == [isAvailable |-> TRUE, errorCount |-> 0, cooldownUntil |-> NoDate, lastError |-> NullMessage]

\* a call of reportError: pc is "idle" (no call is pending) or "callback" (the
\* call awaits the callback, which was called with newKey and reason); error
\* is the message it was called with and result what it returned, kept for the
\* call that returned last
NoCall == [pc |-> "idle", error |-> NullMessage, result |-> "none", newKey |-> NoKey, reason |-> "none"]
Returned(c, error, result) ==
    [d \in DOMAIN rep |->
        IF d = c THEN [NoCall EXCEPT !.error = error, !.result = result]
        ELSE IF rep[d].pc = "idle" THEN NoCall ELSE rep[d]]

\* a call takes the first record that is free
FreeCall(c) == rep[c].pc = "idle" /\ \A d \in 1 .. (c - 1) : rep[d].pc # "idle"

\* counts: the numbers of configured keys to start from; calls: how many calls
\* of reportError may be pending together; messages: the arguments that
\* detectApiError may be called with
InitKeysOf(counts, calls, messages) ==
    /\ envApiKeys \in counts
    /\ keyStates = <<>>
    /\ currentIndex = 0
    /\ onKeySwitchCallback = FALSE
    /\ rep = [c \in 1 .. calls |-> NoCall]
    /\ det \in {[error |-> m, result |-> NoResult] : m \in messages}

\* the backup subsystem runs without API keys
InitKeys == InitKeysOf({0}, 1, {NullMessage})

\* lines 116-122 of loadApiKeys: a fresh state for each configuration
Loaded == [i \in 1 .. envApiKeys |-> FreshKey]

\* mutant: the scans look at the cooldown only
Usable_IgnoreAvailability(state, now) == ~(state.cooldownUntil # NoDate /\ now < state.cooldownUntil)

\* mutant: the scans look at the availability only
Usable_IgnoreCooldown(state, now) == state.isAvailable

\* state.isAvailable and not (state.cooldownUntil && new Date() < state.cooldownUntil)
Usable(state, now) == state.isAvailable /\ ~(state.cooldownUntil # NoDate /\ now < state.cooldownUntil)

\* the loops of getCurrentKey (from i = 0) and switchToNextKey (from i = 1):
\* the first usable key at (start + i) % length, for i below the length
RECURSIVE Scan(_, _, _, _)
Scan(states, start, i, now) ==
    IF i >= Len(states) THEN NoKey
    ELSE LET idx == (start + i) % Len(states)
         IN  IF Usable(states[idx + 1], now) THEN idx ELSE Scan(states, start, i + 1, now)

\* mutant: the reset leaves the cooldowns standing
ResetAll_KeepCooldown(states) ==
    [i \in DOMAIN states |-> [states[i] EXCEPT !.isAvailable = TRUE, !.errorCount = 0]]

\* lines 329-335: resetKeys leaves lastError as it is
ResetAll(states) ==
    [i \in DOMAIN states |-> [states[i] EXCEPT !.isAvailable = TRUE, !.errorCount = 0, !.cooldownUntil = NoDate]]

\* mutant: the key is marked unavailable one error early
Marked_OneErrorEarly(state, error, now) ==
    [state EXCEPT !.errorCount = @ + 1,
                  !.lastError = error,
                  !.cooldownUntil = now + ERROR_COOLDOWN_MS,
                  !.isAvailable = IF state.errorCount + 2 >= MAX_ERROR_COUNT THEN FALSE ELSE @]

\* lines 240-262 of reportError: count the error, set the cooldown, mark the
\* key unavailable at MAX_ERROR_COUNT errors
Marked(state, error, now) ==
    [state EXCEPT !.errorCount = @ + 1,
                  !.lastError = error,
                  !.cooldownUntil = now + ERROR_COOLDOWN_MS,
                  !.isAvailable = IF state.errorCount + 1 >= MAX_ERROR_COUNT THEN FALSE ELSE @]

\* lines 68-132: loadApiKeys(), at start or at any later time: the key states
\* are built anew from the configurations
loadApiKeys ==
    /\ keyStates' = Loaded
    /\ currentIndex' = 0
    /\ UNCHANGED <<envApiKeys, onKeySwitchCallback, rep>>
    /\ UNCHANGED <<clock, backupVars, det>>

\* lines 207-222: what getCurrentKey() returns when called in this state: the
\* first usable key from currentIndex on, or null
CurrentKey ==
    IF keyStates = <<>> THEN Scan(Loaded, 0, 0, clock) ELSE Scan(keyStates, currentIndex, 0, clock)

\* lines 201-223: getCurrentKey loads the keys if none is loaded and moves
\* currentIndex to the key it returns
getCurrentKey ==
    /\ keyStates' = IF keyStates = <<>> THEN Loaded ELSE keyStates
    /\ currentIndex' = IF CurrentKey # NoKey THEN CurrentKey ELSE IF keyStates = <<>> THEN 0 ELSE currentIndex
    /\ UNCHANGED <<envApiKeys, onKeySwitchCallback, rep>>
    /\ UNCHANGED <<clock, backupVars, det>>

\* mutant: no reset when no key is found
switchToNextKey_NoReset(c, error, marked) ==
    LET nextIdx == Scan(marked, currentIndex, 1, clock)
    IN  IF nextIdx # NoKey
        THEN /\ keyStates' = marked
             /\ currentIndex' = nextIdx
             /\ rep' = IF onKeySwitchCallback
                       THEN [rep EXCEPT ![c] = [pc |-> "callback", error |-> error, result |-> "none",
                                                newKey |-> nextIdx, reason |-> detectApiError(error).errorType]]
                       ELSE Returned(c, error, "true")
        ELSE /\ keyStates' = marked
             /\ rep' = Returned(c, error, "false")
             /\ UNCHANGED currentIndex

\* mutant: the callback is called before currentIndex is moved
switchToNextKey_CallbackFirst(c, error, marked) ==
    LET nextIdx == Scan(marked, currentIndex, 1, clock)
    IN  IF nextIdx # NoKey
        THEN /\ keyStates' = marked
             /\ currentIndex' = nextIdx
             /\ rep' = IF onKeySwitchCallback
                       THEN [rep EXCEPT ![c] = [pc |-> "callback", error |-> error, result |-> "none",
                                                newKey |-> currentIndex, reason |-> detectApiError(error).errorType]]
                       ELSE Returned(c, error, "true")
        ELSE /\ keyStates' = ResetAll(marked)
             /\ rep' = Returned(c, error, "false")
             /\ UNCHANGED currentIndex

\* lines 286-324: switchToNextKey(reason), called by reportError once the
\* current key is marked; up to its return or to the await of the callback
switchToNextKey(c, error, marked) ==
    LET nextIdx == Scan(marked, currentIndex, 1, clock)
    IN  IF nextIdx # NoKey
        THEN /\ keyStates' = marked
             /\ currentIndex' = nextIdx
             /\ rep' = IF onKeySwitchCallback
                       THEN [rep EXCEPT ![c] = [pc |-> "callback", error |-> error, result |-> "none",
                                                newKey |-> nextIdx, reason |-> detectApiError(error).errorType]]
                       ELSE Returned(c, error, "true")
        ELSE /\ keyStates' = ResetAll(marked)
             /\ rep' = Returned(c, error, "false")
             /\ UNCHANGED currentIndex

\* mutant: every message counts as an API error
reportError_NoDetection(c, error) ==
    /\ FreeCall(c)
    /\ IF keyStates = <<>>
       THEN /\ rep' = Returned(c, error, "false")
            /\ UNCHANGED <<keyStates, currentIndex>>
       ELSE switchToNextKey(c, error, [keyStates EXCEPT ![currentIndex + 1] = Marked(@, error, clock)])
    /\ UNCHANGED <<envApiKeys, onKeySwitchCallback>>
    /\ UNCHANGED <<clock, backupVars, det>>

\* lines 229-267: reportError(error)
reportError(c, error) ==
    /\ FreeCall(c)
    /\ IF keyStates = <<>> \/ ~detectApiError(error).isApiError
       THEN /\ rep' = Returned(c, error, "false")
            /\ UNCHANGED <<keyStates, currentIndex>>
       ELSE switchToNextKey(c, error, [keyStates EXCEPT ![currentIndex + 1] = Marked(@, error, clock)])
    /\ UNCHANGED <<envApiKeys, onKeySwitchCallback>>
    /\ UNCHANGED <<clock, backupVars, det>>

\* lines 312-316: the callback settles and reportError returns true; when the
\* callback rejects, so does reportError
callbackSettles(c) ==
    /\ rep[c].pc = "callback"
    /\ \E result \in {"true", "threw"} : rep' = Returned(c, rep[c].error, result)
    /\ UNCHANGED <<envApiKeys, keyStates, currentIndex, onKeySwitchCallback>>
    /\ UNCHANGED <<clock, backupVars, det>>

\* mutant: a success leaves the cooldown of the key standing
reportSuccess_KeepCooldown ==
    /\ keyStates # <<>>
    /\ keyStates' = [keyStates EXCEPT ![currentIndex + 1] =
                        [isAvailable |-> TRUE, errorCount |-> 0, cooldownUntil |-> @.cooldownUntil, lastError |-> NullMessage]]
    /\ UNCHANGED <<envApiKeys, currentIndex, onKeySwitchCallback, rep>>
    /\ UNCHANGED <<clock, backupVars, det>>

\* lines 272-281
reportSuccess ==
    /\ keyStates # <<>>
    /\ keyStates' = [keyStates EXCEPT ![currentIndex + 1] =
                        [isAvailable |-> TRUE, errorCount |-> 0, cooldownUntil |-> NoDate, lastError |-> NullMessage]]
    /\ UNCHANGED <<envApiKeys, currentIndex, onKeySwitchCallback, rep>>
    /\ UNCHANGED <<clock, backupVars, det>>

\* lines 329-335
resetKeys ==
    /\ keyStates' = ResetAll(keyStates)
    /\ UNCHANGED <<envApiKeys, currentIndex, onKeySwitchCallback, rep>>
    /\ UNCHANGED <<clock, backupVars, det>>

\* lines 340-344
onKeySwitch ==
    /\ onKeySwitchCallback' = TRUE
    /\ UNCHANGED <<envApiKeys, keyStates, currentIndex, rep>>
    /\ UNCHANGED <<clock, backupVars, det>>

(***************************************************************************)
(* The restore model: a store holding some artifacts, sound and unsound,   *)
(* a live database the application writes between restores, and the clock. *)
(***************************************************************************)
GoodEnvKey == [set |-> TRUE, value |-> <<1, 2>>]
NoEnvKey == [set |-> FALSE, value |-> <<>>]
\* BACKUP_KEY set to the empty string, to 32 characters, to more than 32, and
\* to a value with a character outside ASCII
EmptyEnvKey == [set |-> TRUE, value |-> <<>>]
ExactEnvKey == [set |-> TRUE, value |-> [i \in 1 .. AES_KEY_LEN |-> 2]]
LongEnvKey == [set |-> TRUE, value |-> [i \in 1 .. (AES_KEY_LEN + 1) |-> 1]]
WideEnvKey == [set |-> TRUE, value |-> <<1, ByteMod + 1>>]
EnvKeys == {GoodEnvKey, NoEnvKey, EmptyEnvKey, ExactEnvKey, LongEnvKey, WideEnvKey}

DbA == SQLITE_MAGIC \o <<1>>
DbB == SQLITE_MAGIC \o <<2>>
NotDb == <<2, 1, 1>>
Databases == {DbA, DbB}

\* createSafeBackup lines 101-114: the artifact of a database image
Encode(key, iv, plain) == encrypt(key, iv, Gzip(plain)).body

\* an artifact with one byte of its cipher text changed
Tamper(body) == [body EXCEPT !.data = [@ EXCEPT ![1] = (@ + 1) % ByteMod]]

StoredKey == getBackupKey(GoodEnvKey)
SoundArtifacts == {Encode(StoredKey, 0, DbA), Encode(StoredKey, 1, DbB)}
UnsoundArtifacts ==
    {Encode(StoredKey, 0, NotDb), Tamper(Encode(StoredKey, 0, DbA)), encrypt(StoredKey, 0, <<0, 0>>).body}
MetaBodies == {JsonBody(sha256(DbA)), JsonBody(sha256(DbB)), JsonBody(sha256(NotDb))}

Blob(key, at, body) == [key |-> key, uploadedAt |-> at, body |-> body]

\* the stores a restore may find: an artifact <<1>>, sound or unsound, with or
\* without metadata; the same beside a sibling object; the same beside an
\* artifact <<2>> uploaded earlier, at the same time or later
InitStores ==
    {a \cup m :
        a \in {{}} \cup {{Blob(<<1>>, 1, x)} : x \in SoundArtifacts \cup UnsoundArtifacts},
        m \in {{}} \cup {{Blob(MetaKey(<<1>>), 1, x)} : x \in MetaBodies}}
    \cup
    {a \cup m \cup {Blob(<<1, OTHER_SUFFIX>>, 1, NoBody)} :
        a \in {{}, {Blob(<<1>>, 1, Encode(StoredKey, 0, DbA))}},
        m \in {{}, {Blob(MetaKey(<<1>>), 1, JsonBody(sha256(DbA)))}}}
    \cup
    {a \cup {Blob(<<2>>, t, Encode(StoredKey, 1, DbB))} :
        a \in {{}} \cup {{Blob(<<1>>, 1, x)} : x \in {Encode(StoredKey, 0, DbA), Tamper(Encode(StoredKey, 0, DbA))}},
        t \in {0, 1, 2}}

RestoreEnvs == {<<TRUE, GoodEnvKey>>, <<TRUE, NoEnvKey>>, <<FALSE, GoodEnvKey>>}

InitRestore ==
    /\ \E e \in RestoreEnvs : envToken = e[1] /\ envKey = e[2]
    /\ store \in InitStores
    /\ clock = 0
    /\ live \in {NoFile, File(DbA)}
    /\ safety = {}
    /\ rpc = "Idle"
    /\ rfile = [given |-> FALSE, key |-> <<>>]
    /\ rblob = NoBlob
    /\ rmeta = [present |-> FALSE, body |-> NoBody]
    /\ renc = NoBody
    /\ rplain = <<>>
    /\ rerr = "none"
    /\ rhist = [pre |-> NoFile, safety0 |-> {}, made |-> {}, writes |-> 0, runs |-> 0]
    /\ InitUpload
    /\ InitCleanup
    /\ InitVerify
    /\ InitSchedule
    /\ InitKeys
    /\ ops = 0

\* time passes
Tick ==
    /\ clock < MaxClock
    /\ clock' = clock + 1
    /\ UNCHANGED <<envVars, store, restoreVars, uploadVars, cleanupVars, ops, verifyVars, schedVars, keyVars>>

\* the application writes its database; no restore is running
LiveDbWrite ==
    /\ rpc = "Idle"
    /\ \E db \in Databases : live' = File(db) /\ live' # live
    /\ UNCHANGED <<envVars, store, clock, safety, rpc, rfile, rblob, rmeta, renc, rplain, rerr, rhist>>
    /\ UNCHANGED <<uploadVars, cleanupVars, ops, verifyVars, schedVars, keyVars>>

RestoreStep ==
    /\ \/ \E key \in {<<1>>, <<2>>} : RestoreStart(TRUE, key)
       \/ RestoreStart(FALSE, <<>>)
       \/ RestoreResolve
       \/ RestoreDownload
       \/ RestoreDecode
       \/ RestoreSafetyCopy
       \/ RestoreWrite
       \/ RestoreReturn
    /\ UNCHANGED <<envVars, store, clock, uploadVars, cleanupVars, ops, verifyVars, schedVars, keyVars>>

vars == <<envVars, store, clock, restoreVars, uploadVars, cleanupVars, ops, verifyVars, schedVars, keyVars>>

NextRestore == RestoreStep \/ LiveDbWrite \/ Tick

SpecRestore == InitRestore /\ [][NextRestore]_vars

(***************************************************************************)
(* The verify model: verifyLatestBackup runs over the stores of the        *)
(* restore model.                                                          *)
(***************************************************************************)
VerifyStep ==
    /\ VerifyStart \/ VerifyList \/ VerifyDownload \/ VerifyDecrypt \/ VerifyReturn
    /\ UNCHANGED <<envVars, store, clock, restoreVars, uploadVars, cleanupVars, ops, schedVars, keyVars>>

NextVerify == VerifyStep \/ LiveDbWrite

SpecVerify == InitRestore /\ [][NextVerify]_vars

(***************************************************************************)
(* The store model: uploads and cleanups interleave while time passes.     *)
(* The store is empty at first; the clock starts on Sunday 2025-03-30.     *)
(***************************************************************************)
StartClock == 88 * TicksPerDay

\* the steps of the clock: a tick, a day, the daily and the weekly window
Jumps == {1, TicksPerDay, DAILY_DAYS * TicksPerDay, WEEKLY_DAYS * TicksPerDay}

InitStore ==
    /\ \E e \in RestoreEnvs : envToken = e[1] /\ envKey = e[2]
    /\ store = {}
    /\ clock = StartClock
    /\ live = File(DbA)
    /\ safety = {}
    /\ rpc = "Idle"
    /\ rfile = [given |-> FALSE, key |-> <<>>]
    /\ rblob = NoBlob
    /\ rmeta = [present |-> FALSE, body |-> NoBody]
    /\ renc = NoBody
    /\ rplain = <<>>
    /\ rerr = "none"
    /\ rhist = [pre |-> NoFile, safety0 |-> {}, made |-> {}, writes |-> 0, runs |-> 0]
    /\ InitUpload
    /\ InitCleanup
    /\ InitVerify
    /\ InitSchedule
    /\ InitKeys
    /\ ops = 0

\* time passes; an upload in flight does not outlast a day
AdvanceClock ==
    /\ ops < MaxOps
    /\ ops' = ops + 1
    /\ \E d \in Jumps :
         /\ d >= TicksPerDay => upc = "idle"
         /\ clock' = clock + d
    /\ UNCHANGED <<envVars, store, restoreVars, uploadVars, cleanupVars, verifyVars, schedVars, keyVars>>

NextStore == UploadStep \/ CleanupStep \/ AdvanceClock

SpecStore == InitStore /\ [][NextStore]_vars

(***************************************************************************)
(* The codec model: createSafeBackup encodes a buffer of any bytes; the     *)
(* artifact and its metadata come back from the store, the cipher text as   *)
(* written or with one byte changed; restoreFromBackup decodes and installs.*)
(***************************************************************************)
ByteSeqs(n) == UNION {[1 .. k -> Byte] : k \in 0 .. n}

\* the artifacts that differ from body in one byte of the cipher text
Altered(body) ==
    {[body EXCEPT !.data = [@ EXCEPT ![i] = (@ + d) % ByteMod]] :
        i \in 1 .. Len(body.data), d \in 1 .. (ByteMod - 1)}

InitCodec ==
    /\ envToken = TRUE
    /\ envKey \in EnvKeys
    /\ store = {}
    /\ clock = 0
    /\ live \in {File(buf) : buf \in ByteSeqs(MaxLen)}
    /\ safety = {}
    /\ rpc = "Idle"
    /\ rfile = [given |-> FALSE, key |-> <<>>]
    /\ rblob = NoBlob
    /\ rmeta = [present |-> FALSE, body |-> NoBody]
    /\ renc = NoBody
    /\ rplain = <<>>
    /\ rerr = "none"
    /\ rhist = [pre |-> NoFile, safety0 |-> {}, made |-> {}, writes |-> 0, runs |-> 0]
    /\ InitUpload
    /\ InitCleanup
    /\ InitVerify
    /\ InitSchedule
    /\ InitKeys
    /\ ops = 0

\* createSafeBackup lines 98-122: read the snapshot, take its checksum, gzip,
\* encrypt under a fresh nonce, build the metadata; encrypt throws on a key that
\* is not of the cipher's length
CodecEncode ==
    /\ upc = "idle"
    /\ \E iv \in Byte :
         LET e == encrypt(getBackupKey(envKey), iv, Gzip(live.bytes))
         IN  IF e.ok
             THEN /\ upc' = "encoded"
                  /\ ubody' = e.body
                  /\ umeta' = JsonBody(sha256(live.bytes))
             ELSE /\ upc' = "threw"
                  /\ UNCHANGED <<ubody, umeta>>
    /\ uerr' = IF upc' = "threw" THEN "capture" ELSE "none"
    /\ UNCHANGED <<ukey, restoreVars, envVars, store, clock, cleanupVars, ops, verifyVars, schedVars, keyVars>>

\* restoreFromBackup lines 220-231 on what createSafeBackup returned: the
\* metadata, if any is listed, and the artifact's bytes as the store gives them
CodecFetch ==
    /\ upc = "encoded"
    /\ rpc = "Idle"
    /\ \E body \in {ubody} \cup Altered(ubody), present \in BOOLEAN :
         /\ renc' = body
         /\ rmeta' = [present |-> present, body |-> IF present THEN umeta ELSE NoBody]
    /\ rpc' = "Decoding"
    /\ rhist' = [pre |-> live, safety0 |-> safety, made |-> {}, writes |-> 0, runs |-> rhist.runs + 1]
    /\ UNCHANGED <<live, safety, rfile, rblob, rplain, rerr, uploadVars>>
    /\ UNCHANGED <<envVars, store, clock, cleanupVars, ops, verifyVars, schedVars, keyVars>>

\* restoreFromBackup lines 233-269 on what was fetched
CodecRestore ==
    /\ RestoreDecode \/ RestoreSafetyCopy \/ RestoreWrite
    /\ UNCHANGED <<envVars, store, clock, uploadVars, cleanupVars, ops, verifyVars, schedVars, keyVars>>

NextCodec == CodecEncode \/ CodecFetch \/ CodecRestore

SpecCodec == InitCodec /\ [][NextCodec]_vars

(***************************************************************************)
(* The configuration model: the four public operations that need the       *)
(* store are called one at a time, with the token configured or not, over  *)
(* a store that holds an expired and a current backup.                     *)
(***************************************************************************)
ConfigStore ==
    {Blob(<<StartClock - 1>>, StartClock - 1, Encode(StoredKey, 0, DbB)),
     Blob(MetaKey(<<StartClock - 1>>), StartClock - 1, JsonBody(sha256(DbB))),
     Blob(<<2>>, 2, Encode(StoredKey, 1, DbA)),
     Blob(MetaKey(<<2>>), 2, JsonBody(sha256(DbA)))}

InitConfig ==
    /\ envToken \in BOOLEAN
    /\ envKey = GoodEnvKey
    /\ store = ConfigStore
    /\ clock = StartClock
    /\ live = File(DbA)
    /\ safety = {}
    /\ rpc = "Idle"
    /\ rfile = [given |-> FALSE, key |-> <<>>]
    /\ rblob = NoBlob
    /\ rmeta = [present |-> FALSE, body |-> NoBody]
    /\ renc = NoBody
    /\ rplain = <<>>
    /\ rerr = "none"
    /\ rhist = [pre |-> NoFile, safety0 |-> {}, made |-> {}, writes |-> 0, runs |-> 0]
    /\ InitUpload
    /\ InitCleanup
    /\ InitVerify
    /\ InitSchedule
    /\ InitKeys
    /\ ops = 0

\* no public operation is under way
AllIdle == rpc = "Idle" /\ upc = "idle" /\ cpc = "idle" /\ vpc = "idle"
\* another operation may be called
MayCall == AllIdle /\ ops + rhist.runs < MaxCalls

ConfigUpload == (upc # "idle" \/ MayCall) /\ UploadStep
ConfigCleanup == (cpc # "idle" \/ MayCall) /\ CleanupStep
ConfigRestore == (rpc # "Idle" \/ MayCall) /\ RestoreStep
ConfigVerify == (vpc # "idle" \/ MayCall) /\ VerifyStep

NextConfig == ConfigUpload \/ ConfigCleanup \/ ConfigRestore \/ ConfigVerify

SpecConfig == InitConfig /\ [][NextConfig]_vars

(***************************************************************************)
(* The scheduler model: the scheduler is started, its timers fire and the  *)
(* host calls runFullBackup while the application writes its database and  *)
(* time passes.  The store holds one expired backup at first.              *)
(***************************************************************************)
ExpiredBackup ==
    {Blob(<<2>>, 2, Encode(StoredKey, 1, DbB)),
     Blob(MetaKey(<<2>>), 2, JsonBody(sha256(DbB)))}

InitSched ==
    /\ \E e \in RestoreEnvs : envToken = e[1] /\ envKey = e[2]
    /\ store = ExpiredBackup
    /\ clock = StartClock
    /\ live = File(DbA)
    /\ safety = {}
    /\ rpc = "Idle"
    /\ rfile = [given |-> FALSE, key |-> <<>>]
    /\ rblob = NoBlob
    /\ rmeta = [present |-> FALSE, body |-> NoBody]
    /\ renc = NoBody
    /\ rplain = <<>>
    /\ rerr = "none"
    /\ rhist = [pre |-> NoFile, safety0 |-> {}, made |-> {}, writes |-> 0, runs |-> 0]
    /\ InitUpload
    /\ InitCleanup
    /\ InitVerify
    /\ InitSchedule
    /\ InitKeys
    /\ ops = 0

\* Date.now() moves on by a millisecond
SchedTick ==
    /\ clock < StartClock + MaxClock
    /\ clock' = clock + 1
    /\ UNCHANGED <<envVars, store, restoreVars, uploadVars, cleanupVars, ops, verifyVars, schedVars, keyVars>>

NextSched ==
    \/ StartBackupScheduler
    \/ IntervalUpload
    \/ RunFullBackup
    \/ InvocationStep
    \/ IntervalCleanup
    \/ ScheduledCleanupStep

SpecSched == InitSched /\ [][NextSched]_vars

(***************************************************************************)
(* The overlap model: invocations of uploadBackup started by the scheduler *)
(* overlap while the application writes its database and time passes.      *)
(***************************************************************************)
NextOverlap ==
    \/ StartBackupScheduler
    \/ IntervalUpload
    \/ InvocationStep
    \/ LiveDbWrite
    \/ SchedTick

SpecOverlap == InitSched /\ [][NextOverlap]_vars

(***************************************************************************)
(* The key manager model: the host loads the keys, asks for the current    *)
(* key, reports errors and successes, resets the keys and registers a      *)
(* callback, in any order, while time passes.  The host awaits each call   *)
(* of reportError before the next: at most one call is pending.            *)
(***************************************************************************)
\* the messages the host reports
Reported ==
    {<<"usage limit", "billing cycle">>, <<"API Error: 403">>, <<"some random error">>}

InitKeyManagerOf(counts, calls, messages) ==
    /\ envToken = TRUE
    /\ envKey = GoodEnvKey
    /\ store = {}
    /\ clock = 0
    /\ live = NoFile
    /\ safety = {}
    /\ rpc = "Idle"
    /\ rfile = [given |-> FALSE, key |-> <<>>]
    /\ rblob = NoBlob
    /\ rmeta = [present |-> FALSE, body |-> NoBody]
    /\ renc = NoBody
    /\ rplain = <<>>
    /\ rerr = "none"
    /\ rhist = [pre |-> NoFile, safety0 |-> {}, made |-> {}, writes |-> 0, runs |-> 0]
    /\ InitUpload
    /\ InitCleanup
    /\ InitVerify
    /\ InitSchedule
    /\ InitKeysOf(counts, calls, messages)
    /\ ops = 0

InitKeyManager == InitKeyManagerOf(0 .. MaxKeys, 1, {NullMessage})

\* new Date() moves on
KeyTick ==
    /\ clock < MaxKeyTime
    /\ clock' = clock + 1
    /\ UNCHANGED <<backupVars, keyVars>>

ReportErrorStep == \E c \in DOMAIN rep, error \in Reported : reportError(c, error)
CallbackStep == \E c \in DOMAIN rep : callbackSettles(c)

NextKeys ==
    \/ loadApiKeys
    \/ getCurrentKey
    \/ ReportErrorStep
    \/ CallbackStep
    \/ reportSuccess
    \/ resetKeys
    \/ onKeySwitch
    \/ KeyTick

SpecKeys == InitKeyManager /\ [][NextKeys]_vars

(***************************************************************************)
(* The overlapping calls model: the host does not await reportError, so    *)
(* calls are made while earlier calls are suspended in the callback.  The  *)
(* host reports one API error message; reportSuccess is followed in the    *)
(* key manager model.                                                      *)
(***************************************************************************)
\* the calls of reportError that may be pending together
MaxPending == 2

InitKeyCalls == InitKeyManagerOf({MaxKeys}, MaxPending, {NullMessage})

ReportApiErrorStep == \E c \in DOMAIN rep : reportError(c, <<"API Error: 403">>)

NextKeyCalls ==
    \/ loadApiKeys
    \/ getCurrentKey
    \/ ReportApiErrorStep
    \/ CallbackStep
    \/ resetKeys
    \/ onKeySwitch
    \/ KeyTick

SpecKeyCalls == InitKeyCalls /\ [][NextKeyCalls]_vars

(***************************************************************************)
(* The detection model: detectApiError is called with one of the messages. *)
(***************************************************************************)
InitDetect == InitKeyManagerOf({0}, 1, Messages)

NextDetect == DetectApiErrorStep

SpecDetect == InitDetect /\ [][NextDetect]_vars

(***************************************************************************)
(* Claims about restoreFromBackup                                          *)
(***************************************************************************)
DecodeErrors == {"integrity", "gunzip", "checksum", "header"}

\* C1: a restore that fails in decoding (authenticated decryption,
\* decompression, checksum comparison or header check) has changed nothing on
\* disk: the live database is as it was when the run began and no safety copy
\* was created.
C1_DecodeFailureNoMutation ==
    (rpc = "Failed" /\ rerr \in DecodeErrors) =>
        /\ live = rhist.pre
        /\ safety = rhist.safety0
        /\ rhist.made = {}
        /\ rhist.writes = 0

\* a run over an existing live database failed the checksum comparison
C1_Witness ==
    /\ rpc = "Failed"
    /\ rerr = "checksum"
    /\ rhist.pre.exists
    /\ live = rhist.pre

\* C2 (as claimed): a restore that failed, in whatever state, leaves the live
\* file holding its complete former bytes or the complete decoded bytes, and
\* the live path is written at most once in a run.
C2_NoPartialWrite ==
    /\ rhist.writes <= 1
    /\ rpc = "Failed" => (live = rhist.pre \/ live = File(rplain))

\* C3: where a live database exists, the live path is written only once a
\* complete safety copy of it has been made by this run, and a run whose safety
\* copy failed has not written the live path.
C3_SafetyCopyBeforeWrite ==
    /\ ((rpc = "Writing" \/ rhist.writes > 0) /\ rhist.pre.exists) =>
          \E f \in safety : f.name \in rhist.made /\ f.bytes = rhist.pre.bytes
    /\ (rpc = "Failed" /\ rerr = "copy") => (rhist.writes = 0 /\ live = rhist.pre)

\* the copy failed half way: a partial safety file is on disk, the run is over
C3_Witness ==
    /\ rpc = "Failed"
    /\ rerr = "copy"
    /\ rhist.made # {}
    /\ rhist.pre.exists

\* C4: after a restore over an existing live database succeeded, exactly one
\* safety copy made by this run exists and holds the bytes the live file had
\* before the run, and the live file holds the database image the artifact
\* encodes; so for each of several runs in a row.
C4_SuccessfulRestore ==
    (rpc = "Done" /\ rhist.pre.exists) =>
        /\ Cardinality(rhist.made) = 1
        /\ Cardinality({f \in safety : f.name \in rhist.made}) = 1
        /\ \A f \in safety : f.name \in rhist.made => f.bytes = rhist.pre.bytes
        /\ \E db \in Databases, iv \in Byte :
              /\ rblob.body = Encode(getBackupKey(envKey), iv, db)
              /\ live = File(db)

\* the second run in a row succeeded and replaced the database it found
C4_Witness ==
    /\ rpc = "Done"
    /\ rhist.runs = 2
    /\ rhist.pre.exists
    /\ live.bytes # rhist.pre.bytes
    /\ Cardinality(safety) = 1

\* C11: a restore called without a key resolves, as its target, an object of the
\* store that is no metadata object and whose store-reported upload time is the
\* latest of all such objects, whatever the order of the keys' own stamps.
C11_LatestByStoreTime ==
    (~rfile.given /\ rfile.key # <<>>) =>
        \E b \in store :
            /\ b.key = rfile.key
            /\ ~EndsWithMeta(b.key)
            /\ \A c \in store : ~EndsWithMeta(c.key) => c.uploadedAt <= b.uploadedAt

\* the target is the artifact of the lesser stamp, uploaded after the other
C11_Witness ==
    /\ rpc = "Downloading"
    /\ ~rfile.given
    /\ rfile.key = <<1>>
    /\ \E c \in store : c.key = <<2>> /\ \A b \in store : b.key = <<1>> => c.uploadedAt < b.uploadedAt

\* C12 (as claimed): a restore goes on to download only when the resolved target
\* key is the key of an object in the store; otherwise it has failed with
\* not-found before taking any object to download.
C12_NotFoundBeforeDownload ==
    /\ rblob # NoBlob => rfile.key \in Keys(store)
    /\ (rpc \in {"Downloading", "Decoding"}) => rfile.key \in Keys(store)

\* the run is past the decoding of an artifact it downloaded
PastDecoding == rpc \in {"SafetyCopying", "Writing", "Done", "Failed"} /\ renc.kind = "enc"

\* what the downloaded body holds under the configured key: whether it
\* authenticates and decompresses, and the plaintext it then gives
Downloaded ==
    LET d == decrypt(getBackupKey(envKey), renc)
        g == Gunzip(d.data)
    IN  [ok |-> d.ok /\ g.ok, plain |-> g.data]

\* the downloaded body is a valid artifact of plain
DownloadedArtifactOf(plain) == LET a == Downloaded IN a.ok /\ a.plain = plain

\* C13: a restore that downloaded a valid artifact and a metadata record whose
\* checksum is not the SHA-256 of the artifact's plaintext has failed with the
\* checksum error, and has not written the live file.
C13_ChecksumMismatch ==
    (PastDecoding /\ rmeta.present) =>
        LET a == Downloaded
        IN  (a.ok /\ rmeta.body.checksum # sha256(a.plain)) =>
                /\ rpc = "Failed"
                /\ rerr = "checksum"
                /\ live = rhist.pre
                /\ rhist.writes = 0

\* a sound artifact of a database beside the metadata of another one
C13_Witness ==
    /\ rpc = "Failed"
    /\ rerr = "checksum"
    /\ DownloadedArtifactOf(DbA)
    /\ rmeta.body.checksum = sha256(DbB)
    /\ live.exists

\* C14: a restore that downloaded an artifact which decrypts and decompresses to
\* bytes without the magic header has failed, with the format error unless the
\* metadata's checksum was found not to match first, and has not written the
\* live file; so without metadata and with it.
C14_HeaderCheck ==
    (PastDecoding /\ DownloadedArtifactOf(NotDb)) =>
        /\ rpc = "Failed"
        /\ rerr = IF rmeta.present /\ rmeta.body.checksum # sha256(NotDb) THEN "checksum" ELSE "header"
        /\ live = rhist.pre
        /\ rhist.writes = 0

\* the artifact of bytes that are no database, with its own metadata, is rejected
C14_Witness ==
    /\ rpc = "Failed"
    /\ rerr = "header"
    /\ rmeta.present
    /\ rmeta.body.checksum = sha256(NotDb)
    /\ live.exists

\* C15: a restore that found no metadata object for its target never fails the
\* checksum comparison; an artifact of bytes without the magic header fails the
\* header check; an artifact of a database passes decoding, and a run that is
\* done has installed that database.
C15_NoMetadataTolerated ==
    ~rmeta.present =>
        /\ rerr \notin {"checksum", "json"}
        /\ PastDecoding =>
             LET a == Downloaded
             IN  /\ (a.ok /\ a.plain = NotDb) => (rpc = "Failed" /\ rerr = "header")
                 /\ (a.ok /\ a.plain \in Databases) =>
                       /\ rerr \notin DecodeErrors
                       /\ rpc = "Done" => live = File(a.plain)

\* a restore without metadata replaced the live database
C15_Witness ==
    /\ rpc = "Done"
    /\ ~rmeta.present
    /\ rblob.key = rfile.key
    /\ MetaKey(rfile.key) \notin Keys(store)
    /\ DownloadedArtifactOf(DbB)
    /\ rhist.pre = File(DbA)
    /\ live = File(DbB)

\* the artifact and the metadata of one encoding were decoded together
DecodedOwnPair == rpc \notin {"Idle", "Decoding"} /\ upc = "encoded" /\ renc = ubody /\ rmeta.present
HasMagic(buf) == Len(buf) >= 2 /\ buf[1] = SQLITE_MAGIC[1] /\ buf[2] = SQLITE_MAGIC[2]

C17_TamperDetected ==
    (rpc \notin {"Idle", "Decoding"} /\ upc = "encoded" /\ renc.data # ubody.data) =>
        /\ rpc = "Failed"
        /\ rerr = "integrity"
        /\ rplain = <<>>
        /\ live = rhist.pre
        /\ rhist.writes = 0

\* the last byte of the cipher text of a database was changed
C17_Witness ==
    /\ rpc = "Failed"
    /\ rerr = "integrity"
    /\ upc = "encoded"
    /\ HasMagic(rhist.pre.bytes)
    /\ Len(renc.data) = Len(ubody.data)
    /\ renc.data[Len(renc.data)] # ubody.data[Len(ubody.data)]
    /\ SubSeq(renc.data, 1, Len(renc.data) - 1) = SubSeq(ubody.data, 1, Len(ubody.data) - 1)

(***************************************************************************)
(* Claims about verifyLatestBackup                                         *)
(***************************************************************************)
\* the metadata a restore of the verified artifact would find
MetadataOf(blob) ==
    LET metas == {b \in store : b.key = MetaKey(blob.key)}
    IN  IF metas = {} THEN [present |-> FALSE, body |-> NoBody]
        ELSE [present |-> TRUE, body |-> (CHOOSE b \in metas : TRUE).body]

\* C18 (as claimed): when verifyLatestBackup returns true, the bytes it looked
\* at pass authenticated decryption, decompression and, where the artifact has
\* metadata, the checksum comparison, as a restore of that artifact would run
\* them; and the run has created no file.
C18_VerifyIsFullDecode ==
    /\ safety = {}
    /\ vres = "true" =>
          Decode(getBackupKey(envKey), venc, MetadataOf(vlatest)).err \notin {"integrity", "gunzip", "checksum"}

\* C19: a run of verifyLatestBackup that is over has returned true or false, and
\* false whenever it met a failure: no token, a listing or a download that
\* threw, no artifact in the store, bytes that do not decrypt.
C19_VerifyNeverThrows ==
    vpc = "returned" =>
        /\ vres \in {"true", "false"}
        /\ verr # "none" => vres = "false"
        /\ ~envToken => vres = "false"
        /\ (\A b \in store : EndsWithMeta(b.key)) => vres = "false"
        /\ vres = "true" => decrypt(getBackupKey(envKey), venc).ok

\* the download of the latest artifact threw and the run returned false
C19_Witness ==
    /\ vpc = "returned"
    /\ vres = "false"
    /\ verr = "network"
    /\ vlatest # NoBlob

(***************************************************************************)
(* Claims about the configuration                                          *)
(***************************************************************************)
\* no operation is at, or past, a call of the store (put, list, del, fetch)
NoNetworkCall ==
    /\ upc \notin {"putArtifact", "putMeta"}
    /\ cpc \notin {"listing", "deleting", "failed"}
    /\ rpc \in {"Idle", "Failed"} /\ rblob = NoBlob
    /\ vpc \in {"idle", "returned"} /\ vlatest = NoBlob
    /\ store = ConfigStore

RetentionToday == 438 * TicksPerDay
RetentionNows == {RetentionToday, RetentionToday + TicksPerDay - 1}

\* the second artifact: of Thursday 2026-03-05, or of yesterday
RetentionOthers == {428 * TicksPerDay, 437 * TicksPerDay}

InitRetention ==
    /\ envToken = TRUE
    /\ envKey = GoodEnvKey
    /\ \E t \in 0 .. (RetentionSpanDays * TicksPerDay), o \in RetentionOthers :
         store = {Blob(<<t>>, t, Encode(StoredKey, 0, DbA)), Blob(<<o>>, o, Encode(StoredKey, 0, DbA))}
    /\ clock \in RetentionNows
    /\ live = File(DbA)
    /\ safety = {}
    /\ rpc = "Idle"
    /\ rfile = [given |-> FALSE, key |-> <<>>]
    /\ rblob = NoBlob
    /\ rmeta = [present |-> FALSE, body |-> NoBody]
    /\ renc = NoBody
    /\ rplain = <<>>
    /\ rerr = "none"
    /\ rhist = [pre |-> NoFile, safety0 |-> {}, made |-> {}, writes |-> 0, runs |-> 0]
    /\ InitUpload
    /\ cpc = "listing"
    /\ cnow = 0
    /\ clist = <<>>
    /\ ctoDelete = <<>>
    /\ chist = NoRun
    /\ everSelected = {}
    /\ InitVerify
    /\ InitSchedule
    /\ InitKeys
    /\ ops = 0

NextRetention == CleanupList /\ UNCHANGED <<envVars, clock, restoreVars, uploadVars, verifyVars, schedVars, keyVars>>

SpecRetention == InitRetention /\ [][NextRetention]_vars

(***************************************************************************)
(* Claims about uploadBackup and cleanupOldBackups                         *)
(***************************************************************************)
Front(k) == SubSeq(k, 1, Len(k) - 1)
Range(f) == {f[i] : i \in DOMAIN f}
ArtifactKeyOf(k) == IF EndsWithMeta(k) THEN Front(k) ELSE k

\* the tiered rule: keep what is younger than 7 days, what is of a Sunday and
\* younger than 28 days, what is of the 1st of a month and younger than 365 days
YoungerThan(uploadedAt, now, days) == now - uploadedAt < days * TicksPerDay
RuleKeep(uploadedAt, now) ==
    \/ YoungerThan(uploadedAt, now, 7)
    \/ GetDay(uploadedAt) = 0 /\ YoungerThan(uploadedAt, now, 28)
    \/ GetDate(uploadedAt) = 1 /\ YoungerThan(uploadedAt, now, 365)

\* the artifacts of the run's listing that the rule gives up
RuleSelected == {clist[i].key : i \in {j \in 1 .. Len(clist) : ~RuleKeep(clist[j].uploadedAt, cnow)}}

\* C5 (as claimed): whenever no upload and no cleanup is under way, a metadata
\* object is in the store if and only if its artifact is.
C5_PairInvariant ==
    (upc = "idle" /\ cpc = "idle") =>
        \A b \in store :
            IF EndsWithMeta(b.key) THEN Front(b.key) \in Keys(store) ELSE MetaKey(b.key) \in Keys(store)

\* C6: every object a cleanup run removes from the store is an artifact, or the
\* metadata of an artifact, that the run listed and that the rule gives up at
\* the run's time; the artifact, if still stored, is given up at the time of
\* the removal too.
C6_DeletesOnlyExpired ==
    [][\A b \in store :
          b.key \notin Keys(store') =>
             /\ ArtifactKeyOf(b.key) \in RuleSelected
             /\ \A a \in store : a.key = ArtifactKeyOf(b.key) => ~RuleKeep(a.uploadedAt, clock)]_vars

\* a run removed an artifact while an artifact it keeps, and its metadata, stay
C6_Witness ==
    /\ cpc = "deleting"
    /\ \E k \in Range(chist.attempted) : k \notin Keys(store) /\ k \notin chist.failed
    /\ \E i \in 1 .. Len(clist) :
         /\ RuleKeep(clist[i].uploadedAt, cnow)
         /\ clist[i].key \in Keys(store)
         /\ MetaKey(clist[i].key) \in Keys(store)

\* C7: a cleanup run selects an artifact of its listing exactly when none of
\* the three tiers keeps it, whatever else is listed and in whatever order.
C7_Classification ==
    cpc = "deleting" =>
        \A i \in 1 .. Len(clist) : clist[i].key \in Range(ctoDelete) <=> ~RuleKeep(clist[i].uploadedAt, cnow)

\* an artifact of a Sunday, between 20 and 21 days old, is kept by the weekly
\* tier, and the artifact of a Thursday ten days ago, listed first, is selected
C7_Witness ==
    /\ cpc = "deleting"
    /\ Len(clist) = 2
    /\ GetDay(clist[1].uploadedAt) # 0 /\ GetDate(clist[1].uploadedAt) # 1
    /\ ~YoungerThan(clist[1].uploadedAt, cnow, 10) /\ YoungerThan(clist[1].uploadedAt, cnow, 11)
    /\ clist[1].key \in Range(ctoDelete)
    /\ GetDay(clist[2].uploadedAt) = 0
    /\ ~YoungerThan(clist[2].uploadedAt, cnow, 20) /\ YoungerThan(clist[2].uploadedAt, cnow, 21)
    /\ clist[2].key \notin Range(ctoDelete)

\* C8: a finished cleanup run called del for the metadata key of every artifact
\* it selected, and for no other metadata key.
C8_PairedDeletes ==
    cpc = "done" =>
        /\ \A k \in RuleSelected : k \in Range(chist.attempted) /\ MetaKey(k) \in Range(chist.attempted)
        /\ \A k \in Range(chist.attempted) :
             IF EndsWithMeta(k) THEN Front(k) \in RuleSelected ELSE MetaKey(k) \in Range(chist.attempted)

\* a run over a selected and a kept artifact is done
C8_Witness ==
    /\ cpc = "done"
    /\ RuleSelected # {}
    /\ \E i \in 1 .. Len(clist) : RuleKeep(clist[i].uploadedAt, cnow)

\* C9: a del that throws does not end the run: the run ends in failure only
\* when the listing failed, and a finished run called del once for every
\* object it selected, those after a failed del included.
C9_FailureDoesNotStopBatch ==
    /\ cpc = "failed" => chist.attempted = <<>>
    /\ cpc = "done" =>
         /\ Len(chist.attempted) = 2 * Cardinality(RuleSelected)
         /\ Range(chist.attempted) = RuleSelected \cup {MetaKey(k) : k \in RuleSelected}
         /\ chist.failed \subseteq Range(chist.attempted)

\* the first del of a run threw, the next removed its object, the run is done
C9_Witness ==
    /\ cpc = "done"
    /\ Len(chist.attempted) >= 2
    /\ chist.attempted[1] \in chist.failed
    /\ chist.attempted[2] \notin chist.failed
    /\ chist.attempted[1] \in Keys(store)

\* C10 (as claimed): once a later cleanup run is done without a failed del,
\* neither an artifact that an earlier run selected nor its metadata remains.
C10_Resumable ==
    (cpc = "done" /\ chist.failed = {}) =>
        \A a \in everSelected : a \notin Keys(store) /\ MetaKey(a) \notin Keys(store)

\* C10 (amended): once a later cleanup run is done without a failed del,
\* neither an artifact that an earlier run selected and this run still listed
\* nor its metadata remains.
C10_ResumableWhileListed ==
    (cpc = "done" /\ chist.failed = {}) =>
        \A a \in everSelected :
            (\E i \in 1 .. Len(clist) : clist[i].key = a) =>
                a \notin Keys(store) /\ MetaKey(a) \notin Keys(store)

\* an earlier run left a selected artifact behind; this run listed it again and
\* removed it
C10_Witness ==
    /\ cpc = "done"
    /\ chist.failed = {}
    /\ \E a \in everSelected :
         /\ \E i \in 1 .. Len(clist) : clist[i].key = a
         /\ a \notin Keys(store)
         /\ MetaKey(a) \notin Keys(store)

(***************************************************************************)
(* Claims about overlapping runs                                           *)
(***************************************************************************)
\* the upload under way has put, or is about to put, its artifact and has not
\* yet put its metadata
UploadInProgress == upc \in {"putArtifact", "putMeta"}

\* C23: while an upload is in progress (artifact put done or pending, metadata
\* put not yet done), no step of a cleanup run that overlaps it removes the
\* upload's artifact or metadata object from the store, and the cleanup run
\* has neither of the two in its list of objects to delete.
C23_CleanupSparesUploadInProgress ==
    [][UploadInProgress =>
          /\ \A k \in {ukey, MetaKey(ukey)} : k \in Keys(store) => k \in Keys(store')
          /\ cpc = "deleting" => ukey \notin Range(ctoDelete) /\ MetaKey(ukey) \notin Range(ctoDelete)]_vars

\* a cleanup run has removed an expired artifact while an upload whose artifact
\* is stored still waits for its metadata put
C23_Witness ==
    /\ upc = "putMeta"
    /\ ukey \in Keys(store)
    /\ cpc = "deleting"
    /\ \E k \in Range(chist.attempted) : k \notin chist.failed /\ k \notin Keys(store)

(***************************************************************************)
(* Claims about the configuration of the key                               *)
(***************************************************************************)
\* C27 (as claimed): whatever BACKUP_KEY is (unset, empty, shorter or longer
\* than 32 characters), the key that encrypt was given has exactly the 32 bytes
\* the cipher requires.
C27_KeyHasCipherLength ==
    upc \in {"encoded", "threw"} => Len(getBackupKey(envKey)) = AES_KEY_LEN

(***************************************************************************)
(* Claims about createSafeBackup, the scheduler and overlapping uploads    *)
(***************************************************************************)
\* invocation i is inside createSafeBackup, or was not called yet
InCapture(run) == run.pc \in {"none", "gzip"}

\* C21: the step in which createSafeBackup returns or throws, at whatever
\* point it failed (export, read-back, compression, encryption), leaves no
\* temporary snapshot file behind.
C21_TmpRemovedOnExit ==
    [][\A i \in Runs : (InCapture(inv[i]) /\ ~InCapture(inv'[i])) => ~tmp'.exists]_vars

\* one createSafeBackup has thrown and another has returned, and the temporary
\* file is gone
C21_Witness ==
    /\ \E i \in Runs : inv[i].pc = "failed" /\ inv[i].err = "capture"
    /\ \E i \in Runs : inv[i].pc \in {"putArtifact", "putMeta", "done"}
    /\ ~tmp.exists

\* C22 (as claimed): at most one invocation of uploadBackup is in flight at a
\* time, whichever of the initial call, the upload timer and runFullBackup
\* started it.
C22_OneBackupInFlight == Cardinality(InFlight) <= 1

\* the invocations that have put, or are about to put, under their filename
Named == {i \in Runs : inv[i].key # <<>>}

\* C24 (as claimed): once every invocation of uploadBackup that was called has
\* finished, each artifact the invocations left in the store decodes, under
\* the configured key and against the metadata object stored beside it, to a
\* database, and the temporary snapshot file does not exist.
C24_OverlapLeavesStoreSound ==
    (InFlight = {} /\ \E i \in Runs : inv[i].pc # "none") =>
        /\ ~tmp.exists
        /\ \A b \in store :
              (\E i \in Named : b.key = inv[i].key) =>
                 /\ MetadataOf(b).present
                 /\ Decode(getBackupKey(envKey), b.body, MetadataOf(b)).err = "none"

\* C26 (as claimed): two invocations of uploadBackup never put under the same
\* filename.
C26_DistinctKeys ==
    \A i, j \in Named : i # j => inv[i].key # inv[j].key

\* C25: no failure of an upload or of a cleanup that the scheduler or
\* runFullBackup started goes unhandled, and once the scheduler is started its
\* two timers stay armed whatever failed: a later tick starts a new run.
C25_FailuresCaught ==
    /\ ~sched.escaped
    /\ sched.started => sched.timers = {"upload", "cleanup"}

\* an invocation has thrown, and the upload timer has since started another
\* one, which went through
C25_Witness ==
    /\ sched.started
    /\ \E i, j \in Runs :
         /\ inv[i].pc = "failed"
         /\ inv[j].trigger = "interval"
         /\ inv[j].after >= 1
         /\ inv[j].pc = "done"

(***************************************************************************)
(* Claims about the API key manager                                        *)
(***************************************************************************)
KeyIndices == 0 .. (Len(keyStates) - 1)

\* the calls of reportError that this step may be
Calls == (DOMAIN rep) \X Reported

\* the other keys that are available and not in cooldown
OtherReady ==
    {k \in KeyIndices :
        /\ k # currentIndex
        /\ keyStates[k + 1].isAvailable
        /\ (keyStates[k + 1].cooldownUntil = NoDate \/ clock >= keyStates[k + 1].cooldownUntil)}

\* how far key k is after the current key, going round
After(k) == (k - currentIndex + Len(keyStates)) % Len(keyStates)

\* C28 (as claimed): a call of reportError with an API error, made when
\* another key is available and not in cooldown, makes the first such key
\* after the current one the current key, and the call returns true.
C28_SwitchesAndReturnsTrue ==
    [][/\ \A call \in Calls :
             (reportError(call[1], call[2]) /\ detectApiError(call[2]).isApiError /\ OtherReady # {}) =>
                /\ currentIndex' \in OtherReady
                /\ \A k \in OtherReady : After(currentIndex') <= After(k)
                /\ rep'[call[1]].pc = "idle" => rep'[call[1]].result = "true"
       /\ \A c \in DOMAIN rep :
             (rep[c].pc = "callback" /\ rep'[c].pc = "idle") => rep'[c].result = "true"]_vars

\* C29: a call of reportError with a message that is not an API error returns
\* false at once; the current key and every key's error count, availability,
\* cooldown and last error are as before, and the callback is not called.
C29_NonApiErrorChangesNothing ==
    [][\A call \in Calls :
          (~detectApiError(call[2]).isApiError /\ reportError(call[1], call[2])) =>
             /\ rep'[call[1]].pc = "idle"
             /\ rep'[call[1]].result = "false"
             /\ \A d \in DOMAIN rep : rep'[d].pc = "callback" => rep'[d] = rep[d]
             /\ keyStates' = keyStates
             /\ currentIndex' = currentIndex]_vars

\* a message that is no API error was reported, with a callback registered,
\* on a key that has errors counted, while another key was ready
C29_Witness ==
    /\ \E c \in DOMAIN rep :
         /\ rep[c].error # NullMessage
         /\ ~detectApiError(rep[c].error).isApiError
         /\ rep[c].result = "false"
    /\ onKeySwitchCallback
    /\ keyStates # <<>>
    /\ keyStates[currentIndex + 1].errorCount > 0
    /\ OtherReady # {}

\* C30: a key whose error count has reached MAX_ERROR_COUNT is unavailable;
\* what getCurrentKey returns in any state is an available key, or null; and
\* a key switch goes to a key that is available.
C30_UnavailableNeverUsed ==
    [][/\ \A k \in DOMAIN keyStates' : keyStates'[k].errorCount >= MAX_ERROR_COUNT => ~keyStates'[k].isAvailable
       /\ (keyStates # <<>> /\ CurrentKey # NoKey) => keyStates[CurrentKey + 1].isAvailable
       /\ \A call \in Calls :
             (currentIndex' # currentIndex /\ reportError(call[1], call[2])) =>
                 keyStates[currentIndex' + 1].isAvailable]_vars

\* a key is unavailable after MAX_ERROR_COUNT errors, its cooldown is over,
\* and getCurrentKey returns another key
C30_Witness ==
    /\ \E k \in KeyIndices :
         /\ ~keyStates[k + 1].isAvailable
         /\ keyStates[k + 1].errorCount = MAX_ERROR_COUNT
         /\ clock >= keyStates[k + 1].cooldownUntil
         /\ CurrentKey # NoKey
         /\ CurrentKey # k

\* a key as resetKeys leaves it
IsReset(state) == state.isAvailable /\ state.errorCount = 0 /\ state.cooldownUntil = NoDate

\* C31: a call of reportError with an API error, made when no other key is
\* available and out of cooldown (there may be one key only), returns false,
\* leaves the current key the current key and resets every key: available,
\* error count 0, no cooldown.
C31_NoTargetResetsAll ==
    [][\A call \in Calls :
          (/\ keyStates # <<>>
           /\ OtherReady = {}
           /\ detectApiError(call[2]).isApiError
           /\ reportError(call[1], call[2])) =>
             /\ rep'[call[1]].pc = "idle"
             /\ rep'[call[1]].result = "false"
             /\ currentIndex' = currentIndex
             /\ Len(keyStates') = Len(keyStates)
             /\ \A k \in DOMAIN keyStates' : IsReset(keyStates'[k])]_vars

\* an API error was reported with several keys loaded, the call returned
\* false and left every key reset, the current key with the error as its
\* last error
C31_Witness ==
    /\ Len(keyStates) > 1
    /\ rep[1].pc = "idle"
    /\ rep[1].result = "false"
    /\ detectApiError(rep[1].error).isApiError
    /\ keyStates[currentIndex + 1].lastError = rep[1].error
    /\ \A k \in DOMAIN keyStates : IsReset(keyStates[k])
    /\ clock > 0

\* C32: reportSuccess leaves the current key available, with error count 0,
\* no last error and no cooldown; the current index and the state of every
\* other key are as before.
C32_SuccessClearsCurrentKeyOnly ==
    [][reportSuccess =>
          /\ keyStates'[currentIndex + 1] = FreshKey
          /\ currentIndex' = currentIndex
          /\ Len(keyStates') = Len(keyStates)
          /\ \A k \in KeyIndices : k # currentIndex => keyStates'[k + 1] = keyStates[k + 1]]_vars

\* the first key is current and cleared of the error it had, while the
\* second key still has its error counted and its cooldown running: only a
\* key that had an error lets the current index leave it, and only
\* reportSuccess clears a last error
C32_Witness ==
    /\ Len(keyStates) > 1
    /\ currentIndex = 0
    /\ keyStates[1] = FreshKey
    /\ keyStates[2].errorCount > 0
    /\ keyStates[2].cooldownUntil # NoDate
    /\ clock < keyStates[2].cooldownUntil

\* C33: with a callback registered, a call of reportError calls it exactly
\* when the call switches keys, once, after the current index was moved, with
\* the key that is now current and the error type detected in the message; a
\* call that does not switch does not call it.
C33_CallbackOncePerSwitch ==
    [][\A call \in Calls :
          (onKeySwitchCallback /\ clock' = clock /\ reportError(call[1], call[2])) =>
             /\ (rep'[call[1]].pc = "callback") <=> (currentIndex' # currentIndex)
             /\ rep'[call[1]].pc = "callback" =>
                   /\ rep'[call[1]].newKey = currentIndex'
                   /\ rep'[call[1]].reason = detectApiError(call[2]).errorType
             /\ \A d \in DOMAIN rep : d # call[1] => rep'[d].pc = rep[d].pc]_vars

\* the callback is being called for a switch away from the first key, with
\* the key switched to and the type auth
C33_Witness ==
    /\ \E c \in DOMAIN rep :
         /\ rep[c].pc = "callback"
         /\ rep[c].newKey = currentIndex
         /\ rep[c].reason = "auth"
    /\ currentIndex # 0
    /\ keyStates[1].errorCount > 0

\* the cooldown of key k is running
Cooling(k) == keyStates[k + 1].cooldownUntil # NoDate /\ clock < keyStates[k + 1].cooldownUntil

\* C35 (as claimed): right after an API error is reported on a key, before
\* ERROR_COOLDOWN_MS has gone by, getCurrentKey does not return that key.
C35_CooldownAfterEveryError ==
    [][\A call \in Calls :
          (reportError(call[1], call[2]) /\ detectApiError(call[2]).isApiError /\ keyStates # <<>>) =>
              CurrentKey' # currentIndex]_vars

\* C35 (amended): a call of reportError that switches away from a key leaves
\* that key with a cooldown of ERROR_COOLDOWN_MS from the error; while the
\* cooldown of a key is running getCurrentKey does not return the key and a
\* switch does not select it; a running cooldown ends early only by a reset
\* of the keys (resetKeys, or reportError finding no other key), by
\* reportSuccess or by loading the keys again.
C35_CooldownUnlessReset ==
    [][/\ \A k \in KeyIndices : Cooling(k) => CurrentKey # k
       /\ \A call \in Calls :
             (currentIndex' # currentIndex /\ reportError(call[1], call[2])) =>
                 /\ ~Cooling(currentIndex')
                 /\ keyStates'[currentIndex + 1].cooldownUntil = clock + ERROR_COOLDOWN_MS
                 /\ CurrentKey' # currentIndex
       /\ \A k \in KeyIndices :
             (Cooling(k) /\ keyStates'[k + 1].cooldownUntil # keyStates[k + 1].cooldownUntil) =>
                 \/ reportSuccess
                 \/ resetKeys
                 \/ loadApiKeys
                 \/ \E call \in Calls :
                       /\ reportError(call[1], call[2])
                       /\ OtherReady = {} \/ k = currentIndex]_vars

\* an API error was reported on the first key and the call switched to the
\* second; the cooldown of the first key is running and getCurrentKey
\* returns the second
C35_Witness ==
    /\ Len(keyStates) > 1
    /\ rep[1].result = "true"
    /\ detectApiError(rep[1].error).isApiError
    /\ currentIndex = 1
    /\ Cooling(0)
    /\ keyStates[1].isAvailable
    /\ CurrentKey = 1

\* C39: with keys loaded and no call of reportError pending, getCurrentKey
\* returns a key, not null: some key is available and out of cooldown.
C39_SomeKeyIsReturned ==
    (keyStates # <<>> /\ \A c \in DOMAIN rep : rep[c].pc = "idle") =>
        /\ CurrentKey # NoKey
        /\ Usable(keyStates[CurrentKey + 1], clock)

\* a key is unavailable after MAX_ERROR_COUNT errors, the last call of
\* reportError has returned, and getCurrentKey returns the other key
C39_Witness ==
    /\ Len(keyStates) > 1
    /\ \A c \in DOMAIN rep : rep[c].pc = "idle"
    /\ rep[1].result = "true"
    /\ \E k \in KeyIndices : ~keyStates[k + 1].isAvailable /\ Cooling(k)
    /\ CurrentKey # NoKey
    /\ CurrentKey = currentIndex

\* C40: in every state, also while calls of reportError are suspended in the
\* callback, the error count of each key is between 0 and MAX_ERROR_COUNT, a
\* key is unavailable only with an error count of MAX_ERROR_COUNT or more,
\* and currentIndex is an index of the key list when the list is not empty.
C40_KeyStateInRange ==
    /\ \A k \in DOMAIN keyStates :
          /\ keyStates[k].errorCount \in 0 .. MAX_ERROR_COUNT
          /\ ~keyStates[k].isAvailable => keyStates[k].errorCount >= MAX_ERROR_COUNT
    /\ keyStates # <<>> => currentIndex \in KeyIndices

\* two calls of reportError are suspended in the callback while a key is
\* unavailable after MAX_ERROR_COUNT errors
C40_Witness ==
    /\ Cardinality({c \in DOMAIN rep : rep[c].pc = "callback"}) > 1
    /\ \E k \in DOMAIN keyStates :
          ~keyStates[k].isAvailable /\ keyStates[k].errorCount = MAX_ERROR_COUNT

\* the tests of the types, in the order quota, rate_limit, auth
TypeOrder == <<"quota", "rate_limit", "auth">>
TypeApplies(type, error) ==
    \/ type = "quota" /\ \E t \in {"quota", "usage limit", "billing cycle"} : Has(error, t)
    \/ type = "rate_limit" /\ \E t \in {"rate limit", "429"} : Has(error, t)
    \/ type = "auth" /\ \E t \in {"auth", "403", "permission"} : Has(error, t)

\* C34: detectApiError says isApiError exactly for a message that matches
\* one of the API error patterns; the type is then the first of quota,
\* rate_limit, auth that applies, and unknown when none does; for null, the
\* empty string and a message that matches no pattern the result is
\* isApiError false, type unknown and an empty user message.
C34_DetectsByPatternAndOrder ==
    det.result # NoResult =>
        /\ det.result.isApiError <=>
               (det.error # NullMessage /\ det.error # <<>> /\ MatchesApiErrorPattern(det.error))
        /\ det.result.isApiError =>
               /\ \A i \in DOMAIN TypeOrder :
                     (TypeApplies(TypeOrder[i], det.error)
                        /\ \A j \in 1 .. (i - 1) : ~TypeApplies(TypeOrder[j], det.error)) =>
                           det.result.errorType = TypeOrder[i]
               /\ (\A i \in DOMAIN TypeOrder : ~TypeApplies(TypeOrder[i], det.error)) =>
                     det.result.errorType = "unknown"
               /\ det.result.userMessage # <<>>
        /\ ~det.result.isApiError =>
               /\ det.result.errorType = "unknown"
               /\ det.result.userMessage = <<>>

\* a message that matches a pattern and to which both quota and auth apply
\* was given the type quota
C34_Witness ==
    /\ det.result.isApiError
    /\ det.result.errorType = "quota"
    /\ TypeApplies("auth", det.error)

\* the artifacts of the listing of the cleanup run under way
Listed == {clist[i].key : i \in 1 .. Len(clist)}

\* the metadata objects in the store whose artifact is not
Orphans == {k \in Keys(store) : EndsWithMeta(k) /\ \A a \in Keys(store) : MetaKey(a) # k}

\* C36: a cleanup run calls del for a metadata object only with its artifact
\* in the listing of that run: a metadata object leaves the store only in a
\* run that listed its artifact, and the listing step of a run selects no
\* metadata object that is in the store without its artifact.
C36_OrphanMetadataStays ==
    [][/\ \A k \in Keys(store) \ Keys(store') :
             EndsWithMeta(k) => \E a \in Listed : MetaKey(a) = k
       /\ \A i \in 1 .. Len(ctoDelete') :
             EndsWithMeta(ctoDelete'[i]) => \E a \in Listed' : MetaKey(a) = ctoDelete'[i]
       /\ (cpc = "listing" /\ cpc' = "deleting") =>
             \A k \in Orphans : \A i \in 1 .. Len(ctoDelete') : ctoDelete'[i] # k]_vars

\* an earlier run deleted an artifact and failed to delete its metadata; a
\* later run, in which no del failed, is done and the metadata object is
\* still in the store
C36_Witness ==
    /\ cpc = "done"
    /\ chist.failed = {}
    /\ \E a \in everSelected :
         /\ a \notin Listed
         /\ MetaKey(a) \in Orphans
         /\ \A i \in 1 .. Len(chist.attempted) : chist.attempted[i] # MetaKey(a)

\* C37: uploadBackup puts its metadata object only once the put of its
\* artifact has succeeded; an artifact put that throws ends the invocation
\* with the store as it was; so with uploads only, overlapping ones
\* included, every metadata object in the store has its artifact there.
C37_MetadataAfterArtifact ==
    [][/\ Orphans = {}
       /\ Orphans' = {}
       /\ \A k \in Keys(store') \ Keys(store) :
             EndsWithMeta(k) => \E a \in Keys(store) : MetaKey(a) = k
       /\ \A i \in Runs :
             /\ (inv[i].pc = "putArtifact" /\ inv'[i].pc = "failed") => store' = store
             /\ inv[i].pc = "failed" => inv'[i] = inv[i]]_vars

\* one invocation has put its artifact and its metadata; another, whose put
\* of the artifact threw, has left neither
C37_Witness ==
    \E i, j \in Runs :
        /\ inv[i].pc = "done"
        /\ inv[i].key \in Keys(store)
        /\ MetaKey(inv[i].key) \in Keys(store)
        /\ inv[j].pc = "failed"
        /\ inv[j].err = "network"
        /\ inv[j].key # inv[i].key
        /\ inv[j].key \notin Keys(store)
        /\ MetaKey(inv[j].key) \notin Keys(store)

\* C38 (as claimed): the object a restore takes to download and decode is
\* the object whose key is the resolved target key, never its metadata
\* object nor an object whose key only starts with the target key, in
\* whatever order the store lists.
C38_DownloadsExactTarget ==
    rblob # NoBlob => rblob.key = rfile.key

====
